---------------------------- MODULE Spec2Model ----------------------------
(***************************************************************************)
(* Schema validation and update engine of the Cloud Spanner emulator:      *)
(* the column validator (backend/schema/validators/column_validator.cc),   *)
(* the deferred actions it registers with the schema validation context,   *)
(* and the validate / run-actions / publish protocol of a schema update.   *)
(***************************************************************************)
EXTENDS Integers, Sequences, FiniteSets, TLC

VARIABLES
  pc,         \* position of the schema updater
  current,    \* the published schema snapshot
  before,     \* the snapshot that was current when the update began
  candidate,  \* the snapshot being built and validated by the update
  nstmts,     \* DDL statements applied to the candidate so far
  next_node,  \* position in the validation order of the next node
  actions,    \* SchemaValidationContext: the registered deferred actions
  ran,        \* the deferred actions executed so far, with their outcome
  status,     \* status of the update (the first error, or ok)
  last_call,  \* the last validator call: node, validator, status, additions
  observed,   \* snapshots returned to readers since the update began
  args,       \* arguments of the function under test (function specs)
  result      \* its result

vars == <<pc, current, before, candidate, nstmts, next_node, actions, ran,
          status, last_call, observed, args, result>>

updater_vars == <<pc, current, before, candidate, nstmts, next_node, actions,
                  ran, status, last_call, observed>>

-----------------------------------------------------------------------------
(* zetasql::Type as far as the validator reads it: array-ness, the kind of  *)
(* the (element) type and, for PROTO and ENUM, the descriptor's full name.  *)

PlainKinds == {"INT64", "BOOL", "FLOAT64", "STRING", "BYTES", "TIMESTAMP",
               "DATE", "NUMERIC", "JSON"}

DescriptorKinds == {"PROTO", "ENUM"}

Descriptors == {"pkg.M1", "pkg.M2"}

ScalarType(k, d) == [array |-> FALSE, kind |-> k, desc |-> d]

ArrayType(elem) == [elem EXCEPT !.array = TRUE]

ScalarTypes == {ScalarType(k, "") : k \in PlainKinds}
               \cup {ScalarType(k, d) : k \in DescriptorKinds, d \in Descriptors}

ColumnTypes == ScalarTypes \cup {ArrayType(t) : t \in ScalarTypes}

IsArray(t) == t.array
IsString(t) == ~t.array /\ t.kind = "STRING"
IsBytes(t) == ~t.array /\ t.kind = "BYTES"
IsProto(t) == ~t.array /\ t.kind = "PROTO"
IsEnum(t) == ~t.array /\ t.kind = "ENUM"
IsInt64(t) == ~t.array /\ t.kind = "INT64"
IsTimestamp(t) == ~t.array /\ t.kind = "TIMESTAMP"

\* zetasql::Type::Equals
TypeEquals(a, b) == a = b

\* BaseType(): the element type of an array, the type itself otherwise.
BaseType(t) == IF IsArray(t) THEN [t EXCEPT !.array = FALSE] ELSE t

IsResizeable(t) == IsString(t) \/ IsBytes(t)

\* A slip of IsAllowedTypeChange: the test that array-ness matches is left
\* out, so an array is compared through its element type with a scalar.
IsAllowedTypeChangeNoArrayTest(old_column_type, new_column_type) ==
  LET o == BaseType(old_column_type)
      n == BaseType(new_column_type)
  IN \/ TypeEquals(old_column_type, new_column_type)
     \/ (IsString(n) /\ IsBytes(o)) \/ (IsBytes(n) /\ IsString(o))
     \/ (IsProto(n) /\ IsBytes(o)) \/ (IsBytes(n) /\ IsProto(o))
     \/ (IsProto(n) /\ IsProto(o)) \/ (IsEnum(n) /\ IsEnum(o))
     \/ (IsInt64(n) /\ IsEnum(o)) \/ (IsEnum(n) /\ IsInt64(o))

RECURSIVE IsAllowedTypeChange(_, _)
IsAllowedTypeChange(old_column_type, new_column_type) ==
  IF TypeEquals(old_column_type, new_column_type) THEN TRUE
  ELSE IF IsArray(old_column_type) # IsArray(new_column_type) THEN FALSE
  ELSE IF IsArray(old_column_type)
    THEN IsAllowedTypeChange(BaseType(old_column_type),
                             BaseType(new_column_type))
  ELSE IF \/ (IsString(new_column_type) /\ IsBytes(old_column_type))
          \/ (IsBytes(new_column_type) /\ IsString(old_column_type))
    THEN TRUE
  ELSE IF \/ (IsProto(new_column_type) /\ IsBytes(old_column_type))
          \/ (IsBytes(new_column_type) /\ IsProto(old_column_type))
    THEN TRUE
  ELSE IF \/ (IsProto(new_column_type) /\ IsProto(old_column_type))
          \/ (IsEnum(new_column_type) /\ IsEnum(old_column_type))
    THEN TRUE
  ELSE IF \/ (IsInt64(new_column_type) /\ IsEnum(old_column_type))
          \/ (IsEnum(new_column_type) /\ IsInt64(old_column_type))
    THEN TRUE
  ELSE FALSE

-----------------------------------------------------------------------------
(* Schema nodes.  A snapshot (schema graph) holds tables, columns and       *)
(* sequences, each keyed by the node's address; a pointer between nodes is  *)
(* the address, followed in the graph that holds the node.                  *)

\* limits::kMaxStringColumnLength and limits::kMaxBytesColumnLength
kMaxStringColumnLength == 2621440
kMaxBytesColumnLength == 10485760

\* std::optional<int64_t> declared_max_length_ without a value (MAX).
NoLength == -1

\* std::optional<std::string> expression_ without a value.
NoExpression == ""

\* A null pointer to a node (source_column_, table_, owner_index()).
NoColumn == "none"

\* limits::kMaxSchemaIdentifierLength
kMaxSchemaIdentifierLength == 128

\* Table::row_deletion_policy() without a value.
NoPolicy == ""

\* Column::is_generated()
is_generated(column) == column.expression # NoExpression

\* Column::has_allows_commit_timestamp() / allows_commit_timestamp():
\* the option is "unset", "true" or "false"; unset reads as false.
has_allows_commit_timestamp(column) == column.allows_commit_timestamp # "unset"

allows_commit_timestamp(column) == column.allows_commit_timestamp = "true"

\* Column::effective_max_length(): the declared length, MAX being the limit
\* of the base type.
effective_max_length(column) ==
  IF column.declared_max_length # NoLength THEN column.declared_max_length
  ELSE IF IsString(BaseType(column.type)) THEN kMaxStringColumnLength
  ELSE IF IsBytes(BaseType(column.type)) THEN kMaxBytesColumnLength
  ELSE 0

\* absl::Status: the code, the column named, a second column the message
\* names, and for DropColumnWithChangeStream the count and the concatenated
\* names of the change streams.
Error(code, name, other, count, names) ==
  [code |-> code, name |-> name, other |-> other, count |-> count,
   names |-> names]

OkStatus == Error("OK", "", "", 0, <<>>)

ok(st) == st.code = "OK"

\* The deferred actions (closures) the validator registers, as tagged items.
Action(kind, column_id, max_length) ==
  [kind |-> kind, column |-> column_id, max_length |-> max_length]

\* SchemaValidationContext::AddAction
AddAction(ctx, action) == Append(ctx, action)

\* The result of a validator call: its status and the context it leaves.
Result(st, ctx) == [status |-> st, actions |-> ctx]

\* A slip of CheckAllowedColumnTypeChange: the backfill is registered before
\* the verification of the type change.
CheckAllowedColumnTypeChangeBackfillFirst(old_column, new_column, old_column_type, new_column_type, ctx) ==
  IF ~IsAllowedTypeChange(old_column_type, new_column_type)
    THEN Result(Error("CannotChangeColumnType", new_column.name, "", 0, <<>>), ctx)
  ELSE IF TypeEquals(BaseType(new_column_type), BaseType(old_column_type))
    THEN IF /\ IsResizeable(BaseType(old_column_type))
            /\ effective_max_length(new_column)
                 < effective_max_length(old_column)
           THEN Result(OkStatus,
                  AddAction(ctx, Action("VerifyColumnLength", old_column.node,
                                        effective_max_length(new_column))))
           ELSE Result(OkStatus, ctx)
  ELSE Result(OkStatus,
         AddAction(AddAction(ctx,
             Action("BackfillColumnValue", old_column.node, 0)),
           Action("VerifyColumnTypeChange", old_column.node, 0)))

\* A slip of CheckAllowedColumnTypeChange: the length check is registered
\* whenever the effective length differs (# taken for <).
CheckAllowedColumnTypeChangeAnyLength(old_column, new_column, old_column_type, new_column_type, ctx) ==
  IF ~IsAllowedTypeChange(old_column_type, new_column_type)
    THEN Result(Error("CannotChangeColumnType", new_column.name, "", 0, <<>>), ctx)
  ELSE IF TypeEquals(BaseType(new_column_type), BaseType(old_column_type))
    THEN IF /\ IsResizeable(BaseType(old_column_type))
            /\ effective_max_length(new_column)
                 # effective_max_length(old_column)
           THEN Result(OkStatus,
                  AddAction(ctx, Action("VerifyColumnLength", old_column.node,
                                        effective_max_length(new_column))))
           ELSE Result(OkStatus, ctx)
  ELSE Result(OkStatus,
         AddAction(AddAction(ctx,
             Action("VerifyColumnTypeChange", old_column.node, 0)),
           Action("BackfillColumnValue", old_column.node, 0)))

\* Validates size reductions and column type changes.
CheckAllowedColumnTypeChange(old_column, new_column, old_column_type, new_column_type, ctx) ==
  IF ~IsAllowedTypeChange(old_column_type, new_column_type)
    THEN Result(Error("CannotChangeColumnType", new_column.name, "", 0, <<>>), ctx)
  ELSE IF TypeEquals(BaseType(new_column_type), BaseType(old_column_type))
    THEN IF /\ IsResizeable(BaseType(old_column_type))
            /\ effective_max_length(new_column)
                 < effective_max_length(old_column)
           THEN Result(OkStatus,
                  AddAction(ctx, Action("VerifyColumnLength", old_column.node,
                                        effective_max_length(new_column))))
           ELSE Result(OkStatus, ctx)
  ELSE Result(OkStatus,
         AddAction(AddAction(ctx,
             Action("VerifyColumnTypeChange", old_column.node, 0)),
           Action("BackfillColumnValue", old_column.node, 0)))

\* Column::table(): the table that owns the column, in the column's graph.
TableOf(column, g) == g.tables[column.table]

\* The failure of a ZETASQL_RET_CHECK: an internal error.
RetCheckFailed(name) == Error("INTERNAL", name, "", 0, <<>>)

\* std::string::append over the names of the change streams, in order.
RECURSIVE AppendNames(_)
AppendNames(streams) ==
  IF streams = <<>> THEN <<>>
  ELSE Head(streams) \o AppendNames(Tail(streams))

\* A slip of the row deletion policy rule: the exemption of a dropped table
\* is forgotten.
RowDeletionPolicyWillBreakNoExemption(column, g) ==
  /\ TableOf(column, g).row_deletion_policy # NoPolicy
  /\ TableOf(column, g).row_deletion_policy = column.name
  /\ (column.is_deleted \/ ~IsTimestamp(column.type))

\* ValidateUpdate, lines 240-244: the column is the column of its table's row
\* deletion policy, the table survives, and the column is dropped or is no
\* longer a TIMESTAMP.
RowDeletionPolicyWillBreak(column, g) ==
  LET has_row_deletion_policy ==
        /\ TableOf(column, g).row_deletion_policy # NoPolicy
        /\ TableOf(column, g).row_deletion_policy = column.name
  IN /\ has_row_deletion_policy
     /\ ~TableOf(column, g).is_deleted
     /\ (column.is_deleted \/ ~IsTimestamp(column.type))

\* A slip of the change stream report: the loop stops one stream short.
DropColumnWithChangeStreamOneShort(column, g) ==
  LET streams == column.change_streams_explicitly_tracking_column
  IN Error("DropColumnWithChangeStream", column.name, TableOf(column, g).name,
           Len(streams), AppendNames(SubSeq(streams, 1, Len(streams) - 1)))

\* ValidateUpdate, lines 251-260: the error for a dropped column that change
\* streams track explicitly, with their number and their names.
DropColumnWithChangeStream(column, g) ==
  LET streams == column.change_streams_explicitly_tracking_column
  IN Error("DropColumnWithChangeStream", column.name, TableOf(column, g).name,
           Len(streams), AppendNames(streams))

\* A slip of the dependency rule: the test of is_deleted() is inverted.
DeletedDependenciesInverted(column, g) ==
  {i \in 1..Len(column.dependent_columns) :
     ~g.columns[column.dependent_columns[i]].is_deleted}

\* ValidateUpdate, lines 273-274: the positions in dependent_columns() of the
\* columns that are deleted.
DeletedDependencies(column, g) ==
  {i \in 1..Len(column.dependent_columns) :
     g.columns[column.dependent_columns[i]].is_deleted}

\* The least element of a non-empty set of positions (the first the loop meets).
First(S) == CHOOSE i \in S : \A j \in S : i <= j

\* A slip of ValidateUpdate: the check of the column id is left out.
IdUnchangedUnchecked(column, old_column) == TRUE

\* ValidateUpdate, line 267: once set, the column id never changes.
IdUnchanged(column, old_column) == column.id = old_column.id

\* A slip of the rule on generated columns: the expressions are not compared.
GeneratedColumnRejectionExpressionUnchecked(column, old_column, g) ==
  IF is_generated(column) /\ ~is_generated(old_column)
    THEN Error("CannotConvertRegularColumnToGeneratedColumn",
               column.name, TableOf(column, g).name, 0, <<>>)
  ELSE IF ~is_generated(column) /\ is_generated(old_column)
    THEN Error("CannotConvertGeneratedColumnToRegularColumn",
               column.name, TableOf(column, g).name, 0, <<>>)
  ELSE IF is_generated(column) /\ is_generated(old_column)
    THEN IF ~TypeEquals(column.type, old_column.type)
           THEN Error("CannotAlterStoredGeneratedColumnDataType",
                      column.name, TableOf(column, g).name, 0, <<>>)
         ELSE IF column.is_stored # old_column.is_stored
           THEN Error("CannotAlterGeneratedColumnStoredAttribute",
                      column.name, TableOf(column, g).name, 0, <<>>)
         ELSE OkStatus
  ELSE OkStatus

\* ValidateUpdate, lines 279-300: a column does not become or cease to be
\* generated, and a generated column keeps its type, its expression and its
\* stored attribute.
GeneratedColumnRejection(column, old_column, g) ==
  IF is_generated(column) /\ ~is_generated(old_column)
    THEN Error("CannotConvertRegularColumnToGeneratedColumn",
               column.name, TableOf(column, g).name, 0, <<>>)
  ELSE IF ~is_generated(column) /\ is_generated(old_column)
    THEN Error("CannotConvertGeneratedColumnToRegularColumn",
               column.name, TableOf(column, g).name, 0, <<>>)
  ELSE IF is_generated(column) /\ is_generated(old_column)
    THEN IF ~TypeEquals(column.type, old_column.type)
           THEN Error("CannotAlterStoredGeneratedColumnDataType",
                      column.name, TableOf(column, g).name, 0, <<>>)
         ELSE IF column.expression # old_column.expression
           THEN Error("CannotAlterGeneratedColumnExpression",
                      column.name, TableOf(column, g).name, 0, <<>>)
         ELSE IF column.is_stored # old_column.is_stored
           THEN Error("CannotAlterGeneratedColumnStoredAttribute",
                      column.name, TableOf(column, g).name, 0, <<>>)
         ELSE OkStatus
  ELSE OkStatus

\* A slip of the rule on dependent generated columns: only the stored
\* generated columns are looked at.
HasDependentGeneratedColumnStoredOnly(column, g) ==
  \E i \in 1..Len(TableOf(column, g).columns) :
    LET generated_column == g.columns[TableOf(column, g).columns[i]]
    IN /\ is_generated(generated_column) /\ generated_column.is_stored
       /\ \E j \in 1..Len(generated_column.dependent_columns) :
            generated_column.dependent_columns[j] = column.node

\* ValidateUpdate, lines 302-312: some generated column of the table lists
\* this column (the same node) among its dependencies.
HasDependentGeneratedColumn(column, g) ==
  \E i \in 1..Len(TableOf(column, g).columns) :
    LET generated_column == g.columns[TableOf(column, g).columns[i]]
    IN /\ is_generated(generated_column)
       /\ \E j \in 1..Len(generated_column.dependent_columns) :
            generated_column.dependent_columns[j] = column.node

\* A slip of the sequence rule: the test of is_deleted() is inverted.
DeletedSequencesInverted(column, g) ==
  {i \in 1..Len(column.sequences_used) :
     ~g.sequences[column.sequences_used[i]].is_deleted}

\* ValidateUpdate, lines 345-347: the sequences used that are deleted.
DeletedSequences(column, g) ==
  {i \in 1..Len(column.sequences_used) :
     g.sequences[column.sequences_used[i]].is_deleted}

\* A slip of the not-null rule: the verification is registered for the
\* change from not-nullable to nullable.
NotNullVerificationReversed(column, old_column, ctx) ==
  IF ~old_column.is_nullable /\ column.is_nullable
    THEN AddAction(ctx, Action("VerifyColumnNotNull", old_column.node, 0))
    ELSE ctx

\* Lines 326-330: a column that becomes NOT NULL has its stored values
\* verified.
NotNullVerification(column, old_column, ctx) ==
  IF old_column.is_nullable /\ ~column.is_nullable
    THEN AddAction(ctx, Action("VerifyColumnNotNull", old_column.node, 0))
    ELSE ctx

\* A slip of the commit timestamp rule: the verification is registered
\* whenever the option changes.
CommitTimestampVerificationAnyChange(column, old_column, ctx) ==
  IF /\ IsTimestamp(column.type)
     /\ allows_commit_timestamp(column) # allows_commit_timestamp(old_column)
    THEN AddAction(ctx, Action("VerifyColumnCommitTimestamp", column.node, 0))
    ELSE ctx

\* Lines 336-343: a TIMESTAMP column that starts to allow commit timestamps
\* has its stored values verified.
CommitTimestampVerification(column, old_column, ctx) ==
  IF /\ IsTimestamp(column.type)
     /\ allows_commit_timestamp(column)
     /\ ~allows_commit_timestamp(old_column)
    THEN AddAction(ctx, Action("VerifyColumnCommitTimestamp", column.node, 0))
    ELSE ctx

\* ColumnValidator::ValidateUpdate(column, old_column, context); g is the
\* graph that holds column, through which its pointers are followed.
ValidateUpdate(column, old_column, g, ctx) ==
  IF RowDeletionPolicyWillBreak(column, g)
    THEN Result(Error("RowDeletionPolicyWillBreak", column.name,
                      TableOf(column, g).name, 0, <<>>), ctx)
  ELSE IF /\ column.change_streams_explicitly_tracking_column # <<>>
          /\ column.is_deleted
    THEN Result(DropColumnWithChangeStream(column, g), ctx)
  ELSE IF column.is_deleted THEN Result(OkStatus, ctx)
  ELSE IF ~IdUnchanged(column, old_column)
    THEN Result(RetCheckFailed(column.name), ctx)
  ELSE IF TableOf(column, g).is_deleted THEN Result(RetCheckFailed(column.name), ctx)
  ELSE IF DeletedDependencies(column, g) # {}
    THEN Result(Error("InvalidDropColumnReferencedByGeneratedColumn",
                  g.columns[column.dependent_columns[
                      First(DeletedDependencies(column, g))]].name,
                  column.name, 0, <<>>), ctx)
  ELSE IF ~ok(GeneratedColumnRejection(column, old_column, g))
    THEN Result(GeneratedColumnRejection(column, old_column, g), ctx)
  ELSE IF /\ ~TypeEquals(column.type, old_column.type)
          /\ HasDependentGeneratedColumn(column, g)
    THEN Result(Error(
           "CannotAlterColumnDataTypeWithDependentStoredGeneratedColumn",
           column.name, "", 0, <<>>), ctx)
  ELSE IF /\ column.source_column # NoColumn
          /\ g.columns[column.source_column].is_deleted
    THEN IF TableOf(column, g).owner_index = NoColumn
           THEN Result(RetCheckFailed(column.name), ctx)
           ELSE Result(Error("InvalidDropColumnWithDependency", column.name,
                             TableOf(column, g).owner_index, 0, <<>>), ctx)
  ELSE
    LET ctx1 == NotNullVerification(column, old_column, ctx)
        r == CheckAllowedColumnTypeChange(old_column, column,
                                          old_column.type, column.type, ctx1)
        ctx2 == CommitTimestampVerification(column, old_column, r.actions)
    IN IF ~ok(r.status) THEN r
       ELSE IF DeletedSequences(column, g) # {}
         THEN Result(Error("InvalidDropSequenceWithColumnDependents",
                 g.sequences[column.sequences_used[
                     First(DeletedSequences(column, g))]].name,
                 column.name, 0, <<>>), ctx2)
       ELSE Result(OkStatus, ctx2)

\* ColumnValidator::TypeExistsInProtoBundle
TypeExistsInProtoBundle(type, proto_bundle) ==
  IF IsProto(type) \/ IsEnum(type) THEN type.desc \in proto_bundle ELSE FALSE

\* ColumnValidator::ValidateTypeExistsInProtoBundle
ValidateTypeExistsInProtoBundle(type, proto_bundle, column_name) ==
  IF ~(IsProto(type) \/ IsEnum(type)) THEN RetCheckFailed(column_name)
  ELSE IF TypeExistsInProtoBundle(type, proto_bundle) THEN OkStatus
  ELSE Error("DeletedTypeStillInUse", column_name, type.desc, 0, <<>>)

\* Table::FindKeyColumn(name) finds a key column of the table.
FindKeyColumn(table, name) ==
  \E i \in 1..Len(table.key_columns) : table.key_columns[i] = name

\* The dependencies of a generated column that allow commit timestamps.
CommitTimestampDependencies(column, g) ==
  {i \in 1..Len(column.dependent_columns) :
     allows_commit_timestamp(g.columns[column.dependent_columns[i]])}

\* A slip of the option rules: only an option set to true is looked at, and
\* the default value is not.
CommitTimestampOptionRejectionWhenTrue(column) ==
  IF allows_commit_timestamp(column) /\ ~IsTimestamp(column.type)
    THEN Error("UnallowedCommitTimestampOption", column.name, "", 0, <<>>)
  ELSE OkStatus

\* Lines 208-215 of Validate: the commit timestamp option goes with a
\* TIMESTAMP column and not with a default value.
CommitTimestampOptionRejection(column) ==
  IF has_allows_commit_timestamp(column) /\ ~IsTimestamp(column.type)
    THEN Error("UnallowedCommitTimestampOption", column.name, "", 0, <<>>)
  ELSE IF column.has_default_value /\ allows_commit_timestamp(column)
    THEN Error("CannotUseCommitTimestampWithColumnDefaultValue",
               column.name, "", 0, <<>>)
  ELSE OkStatus

\* ColumnValidator::Validate(column, context); g is the graph of column and
\* carries the context's proto bundle and the feature flags.
Validate(column, g) ==
  LET base_type == BaseType(column.type)
      len == column.declared_max_length
  IN
  IF column.table = NoColumn THEN RetCheckFailed(column.name)
  ELSE IF column.name = "" \/ column.id = ""
    THEN RetCheckFailed(column.name)
  ELSE IF column.type \notin ColumnTypes THEN RetCheckFailed(column.name)
  ELSE IF len # NoLength /\ ~(IsString(base_type) \/ IsBytes(base_type))
    THEN RetCheckFailed(column.name)
  ELSE IF Len(column.name) > kMaxSchemaIdentifierLength
    THEN Error("InvalidSchemaName", column.name, "", 0, <<>>)
  ELSE IF /\ column.source_column # NoColumn
          /\ \/ ~TypeEquals(column.type, g.columns[column.source_column].type)
             \/ len # g.columns[column.source_column].declared_max_length
    THEN RetCheckFailed(column.name)
  ELSE IF /\ len # NoLength /\ IsString(base_type)
          /\ (len = 0 \/ len > kMaxStringColumnLength)
    THEN Error("InvalidColumnLength", column.name, "", len, <<>>)
  ELSE IF /\ len # NoLength /\ IsBytes(base_type)
          /\ (len = 0 \/ len > kMaxBytesColumnLength)
    THEN Error("InvalidColumnLength", column.name, "", len, <<>>)
  ELSE IF /\ (IsProto(base_type) \/ IsEnum(base_type))
          /\ ~ok(ValidateTypeExistsInProtoBundle(base_type, g.proto_bundle,
                                                 column.name))
    THEN ValidateTypeExistsInProtoBundle(base_type, g.proto_bundle,
                                         column.name)
  ELSE IF ~ok(CommitTimestampOptionRejection(column))
    THEN CommitTimestampOptionRejection(column)
  ELSE IF /\ is_generated(column)
          /\ ~g.enable_generated_pk
          /\ FindKeyColumn(TableOf(column, g), column.name)
    THEN Error("CannotUseGeneratedColumnInPrimaryKey", column.name,
               TableOf(column, g).name, 0, <<>>)
  ELSE IF is_generated(column) /\ CommitTimestampDependencies(column, g) # {}
    THEN Error("CannotUseCommitTimestampOnGeneratedColumnDependency",
               g.columns[column.dependent_columns[
                   First(CommitTimestampDependencies(column, g))]].name,
               "", 0, <<>>)
  ELSE OkStatus

-----------------------------------------------------------------------------
(* The schemas of the model: one table T with a column A, optionally a      *)
(* stored generated column G computed from A, optionally a sequence that    *)
(* the default value of A draws from, and change streams that track A.      *)

MaxLen == 2          \* declared lengths are 1..MaxLen, or MAX
MaxStreams == 2      \* change streams that explicitly track a column
MaxStatements == 2   \* DDL statements of one schema update

Digit(i) == <<"0", "1", "2", "3", "4", "5", "6", "7", "8", "9">>[i + 1]

\* ChangeStream::Name() of the i-th change stream, as characters.
StreamName(i) == <<"c", "s", Digit(i)>>

Streams(n) == [i \in 1..n |-> StreamName(i)]

StringType == ScalarType("STRING", "")
BytesType == ScalarType("BYTES", "")
Int64Type == ScalarType("INT64", "")
TimestampType == ScalarType("TIMESTAMP", "")

\* The column types the updates of the model range over.
UpdaterTypes == {StringType, BytesType, Int64Type, TimestampType}

\* The declared lengths a column of type t can have.
Lengths(t) ==
  IF IsResizeable(BaseType(t)) THEN {NoLength} \cup (1..MaxLen) ELSE {NoLength}

NewColumn(node, name, type, len, nullable) ==
  [node |-> node, id |-> node, name |-> name, table |-> "t1", type |-> type,
   declared_max_length |-> len, is_nullable |-> nullable,
   is_deleted |-> FALSE, expression |-> NoExpression, is_stored |-> FALSE,
   allows_commit_timestamp |-> "unset", has_default_value |-> FALSE,
   dependent_columns |-> <<>>,
   change_streams_explicitly_tracking_column |-> <<>>,
   sequences_used |-> <<>>, source_column |-> NoColumn]

ColumnA(type, len, nullable, ct, nstreams, seq) ==
  [NewColumn("c1", "A", type, len, nullable) EXCEPT
     !.allows_commit_timestamp = ct,
     !.change_streams_explicitly_tracking_column = Streams(nstreams),
     !.has_default_value = seq,
     !.sequences_used = IF seq THEN <<"s1">> ELSE <<>>]

ColumnG ==
  [NewColumn("c2", "G", StringType, NoLength, TRUE) EXCEPT
     !.expression = "A", !.is_stored = TRUE, !.dependent_columns = <<"c1">>]

TableT(policy, with_g) ==
  [name |-> "T", is_deleted |-> FALSE, row_deletion_policy |-> policy,
   columns |-> IF with_g THEN <<"c1", "c2">> ELSE <<"c1">>,
   key_columns |-> <<>>, owner_index |-> NoColumn]

Schema(a, policy, with_g) ==
  [tables |-> [t \in {"t1"} |-> TableT(policy, with_g)],
   columns |-> [c \in (IF with_g THEN {"c1", "c2"} ELSE {"c1"}) |->
                  IF c = "c1" THEN a ELSE ColumnG],
   sequences |-> [q \in (IF a.sequences_used # <<>> THEN {"s1"} ELSE {}) |->
                    [name |-> "Seq", is_deleted |-> FALSE]],
   proto_bundle |-> Descriptors, enable_generated_pk |-> FALSE]

\* The published snapshots an update can start from: the commit timestamp
\* option and the row deletion policy go with a TimestampType column, a sequence
\* with an Int64Type column, and a generated column does not depend on a
\* commit timestamp column.
InitialSchemas ==
  {Schema(ColumnA(type, len, nullable, ct, nstreams, seq), policy, with_g) :
     <<type, len, nullable, ct, nstreams, seq, policy, with_g>> \in
       {x \in UpdaterTypes \X (NoLength..MaxLen) \X BOOLEAN
                \X {"unset", "true", "false"} \X (0..MaxStreams) \X BOOLEAN
                \X {NoPolicy, "A"} \X BOOLEAN :
          /\ x[2] \in Lengths(x[1])
          /\ (x[4] # "unset" => IsTimestamp(x[1]))
          /\ (x[6] => IsInt64(x[1]))
          /\ (x[7] # NoPolicy => IsTimestamp(x[1]))
          /\ (x[8] => x[4] # "true")}}

\* No candidate: no update is being built.
NoSchema ==
  [tables |-> <<>>, columns |-> <<>>, sequences |-> <<>>,
   proto_bundle |-> {}, enable_generated_pk |-> FALSE]

-----------------------------------------------------------------------------
(* DDL statements, as the edits they make to the candidate graph.           *)

LiveColumns(g) == {c \in DOMAIN g.columns : ~g.columns[c].is_deleted}
RegularColumns(g) == {c \in LiveColumns(g) : ~is_generated(g.columns[c])}
LiveTables(g) == {t \in DOMAIN g.tables : ~g.tables[t].is_deleted}
LiveSequences(g) == {q \in DOMAIN g.sequences : ~g.sequences[q].is_deleted}

\* ALTER TABLE t ALTER COLUMN c <type>(<len>) [NOT NULL]
AlterColumn(g, c, type, len, not_null) ==
  [g EXCEPT !.columns[c].type = type,
            !.columns[c].declared_max_length = len,
            !.columns[c].is_nullable = ~not_null]

\* ALTER TABLE t ALTER COLUMN c SET OPTIONS (allow_commit_timestamp = ct)
SetOptions(g, c, ct) ==
  [g EXCEPT !.columns[c].allows_commit_timestamp = ct]

\* ALTER TABLE t DROP COLUMN c
DropColumn(g, c) == [g EXCEPT !.columns[c].is_deleted = TRUE]

\* DROP TABLE t: the table and the columns it owns are marked deleted.
DropTable(g, t) ==
  [g EXCEPT !.tables[t].is_deleted = TRUE,
            !.columns = [c \in DOMAIN g.columns |->
                           IF g.columns[c].table = t
                             THEN [g.columns[c] EXCEPT !.is_deleted = TRUE]
                             ELSE g.columns[c]]]

\* DROP SEQUENCE q
DropSequence(g, q) == [g EXCEPT !.sequences[q].is_deleted = TRUE]

\* The candidates one more statement makes of g; the statements of the model
\* alter the regular columns and drop any node.
Statements(g) ==
  {AlterColumn(g, c, type, len, not_null) :
     <<c, type, len, not_null>> \in
       {x \in RegularColumns(g) \X UpdaterTypes \X (NoLength..MaxLen) \X BOOLEAN :
          x[3] \in Lengths(x[2])}}
  \cup {SetOptions(g, c, ct) :
          c \in RegularColumns(g), ct \in {"true", "false", "unset"}}
  \cup {DropColumn(g, c) : c \in LiveColumns(g)}
  \cup {DropTable(g, t) : t \in LiveTables(g)}
  \cup {DropSequence(g, q) : q \in LiveSequences(g)}

\* The snapshot a candidate is published as: the deleted nodes are gone.
Canonical(g) ==
  [g EXCEPT
     !.tables = [t \in LiveTables(g) |->
                   [g.tables[t] EXCEPT !.columns =
                      SelectSeq(g.tables[t].columns,
                                LAMBDA c : ~g.columns[c].is_deleted)]],
     !.columns = [c \in LiveColumns(g) |-> g.columns[c]],
     !.sequences = [q \in LiveSequences(g) |-> g.sequences[q]]]

-----------------------------------------------------------------------------
(* The schema update: build the candidate, validate every node, run the     *)
(* deferred actions in registration order, publish.                         *)

NoCall ==
  [validator |-> "none", node |-> NoColumn, status |-> OkStatus,
   added |-> <<>>]

Call(validator, node, st, added) ==
  [validator |-> validator, node |-> node, status |-> st, added |-> added]

\* The validation order: the columns of the candidate, table by table.
ValidationOrder(g) == g.tables["t1"].columns

\* The error of a deferred action that failed against the stored data.
ActionError(action) == Error(action.kind, action.column, "", 0, <<>>)

\* A slip of the runner: the actions are taken from the end of the list.
NextActionLastFirst(ctx, done) == Len(ctx) - Len(done)

\* The deferred action to run next: the first not yet run.
NextAction(ctx, done) == Len(done) + 1

\* A slip of the updater: a validator's error is recorded and the update
\* goes on to the next step all the same.
AfterValidateIgnoringErrors(st, last) ==
  IF last THEN "running" ELSE "validating"

\* Where the updater goes after a validator returned st for a node (last:
\* it was the last node): the first error ends the update.
AfterValidate(st, last) ==
  IF ~ok(st) THEN "rejected"
  ELSE IF last THEN "running" ELSE "validating"

\* The update may publish: every registered action has run and succeeded.
AllActionsSucceeded(ctx, done) ==
  /\ Len(done) = Len(ctx)
  /\ \A i \in 1..Len(done) : done[i].ok

\* A slip of the reader: while an update is under way it is given the
\* graph under construction.
ReadSnapshotOfCandidate(cur, cand) == IF cand = NoSchema THEN cur ELSE cand

\* What a reader is given: the published snapshot.
ReadSnapshot(cur, cand) == cur

Init ==
  /\ pc = "idle"
  /\ current \in InitialSchemas
  /\ before = current
  /\ candidate = NoSchema
  /\ nstmts = 0
  /\ next_node = 1
  /\ actions = <<>>
  /\ ran = <<>>
  /\ status = OkStatus
  /\ last_call = NoCall
  /\ observed = {}
  /\ args = <<>>
  /\ result = FALSE

BeginUpdate ==
  /\ pc = "idle"
  /\ pc' = "building"
  /\ before' = current
  /\ candidate' = current
  /\ UNCHANGED <<current, nstmts, next_node, actions, ran, status, last_call,
                 observed, args, result>>

ApplyStatement ==
  /\ pc = "building"
  /\ nstmts < MaxStatements
  /\ \E g \in Statements(candidate) : candidate' = g
  /\ nstmts' = nstmts + 1
  /\ UNCHANGED <<pc, current, before, next_node, actions, ran, status,
                 last_call, observed, args, result>>

StartValidation ==
  /\ pc = "building"
  /\ pc' = IF ValidationOrder(candidate) = <<>> THEN "running"
           ELSE "validating"
  /\ UNCHANGED <<current, before, candidate, nstmts, next_node, actions, ran,
                 status, last_call, observed, args, result>>

\* The next node is validated: Validate(), then ValidateUpdate() against the
\* node of the snapshot the update began from.
ValidateNode ==
  /\ pc = "validating"
  /\ LET node == ValidationOrder(candidate)[next_node]
         column == candidate.columns[node]
         old_column == before.columns[node]
         last == next_node = Len(ValidationOrder(candidate))
         v == IF column.is_deleted THEN OkStatus
              ELSE Validate(column, candidate)
         r == ValidateUpdate(column, old_column, candidate, actions)
         added == SubSeq(r.actions, Len(actions) + 1, Len(r.actions))
     IN IF ~ok(v)
          THEN /\ pc' = AfterValidate(v, last)
               /\ status' = v
               /\ last_call' = Call("Validate", node, v, <<>>)
               /\ UNCHANGED actions
          ELSE /\ pc' = AfterValidate(r.status, last)
               /\ status' = r.status
               /\ last_call' = Call("ValidateUpdate", node, r.status, added)
               /\ actions' = r.actions
  /\ next_node' = next_node + 1
  /\ UNCHANGED <<current, before, candidate, nstmts, ran, observed, args,
                 result>>

\* The next deferred action runs against the stored data and succeeds or
\* fails; a failure aborts the update.
RunAction ==
  /\ pc = "running"
  /\ Len(ran) < Len(actions)
  /\ LET i == NextAction(actions, ran)
     IN \E okay \in BOOLEAN :
          /\ ran' = Append(ran, [index |-> i, ok |-> okay])
          /\ IF okay
               THEN UNCHANGED <<pc, status>>
               ELSE /\ pc' = "rejected"
                    /\ status' = ActionError(actions[i])
  /\ UNCHANGED <<current, before, candidate, nstmts, next_node, actions,
                 last_call, observed, args, result>>

Publish ==
  /\ pc = "running"
  /\ AllActionsSucceeded(actions, ran)
  /\ current' = Canonical(candidate)
  /\ pc' = "published"
  /\ UNCHANGED <<before, candidate, nstmts, next_node, actions, ran, status,
                 last_call, observed, args, result>>

\* A reader (query execution) takes the snapshot to read from.
Read ==
  /\ pc # "idle"
  /\ observed' = observed \cup {ReadSnapshot(current, candidate)}
  /\ UNCHANGED <<pc, current, before, candidate, nstmts, next_node, actions,
                 ran, status, last_call, args, result>>

Next ==
  \/ BeginUpdate
  \/ ApplyStatement
  \/ StartValidation
  \/ ValidateNode
  \/ RunAction
  \/ Publish
  \/ Read

Spec == Init /\ [][Next]_vars

-----------------------------------------------------------------------------
(* Properties of the schema update.                                         *)

\* The column a validator call was about, in the candidate and in the
\* snapshot the update began from.
NewOf(call) == candidate.columns[call.node]
OldOf(call) == before.columns[call.node]

IsUpdateCall(call) == call.validator = "ValidateUpdate"

\* Every validator of the candidate returns success.
AllValidatorsSucceed ==
  \A i \in 1..Len(ValidationOrder(candidate)) :
    LET node == ValidationOrder(candidate)[i]
        column == candidate.columns[node]
    IN /\ column.is_deleted \/ ok(Validate(column, candidate))
       /\ ok(ValidateUpdate(column, before.columns[node], candidate,
                            <<>>).status)

\* The kinds of the actions executed so far, in the order of execution.
KindsRun == [k \in 1..Len(ran) |-> actions[ran[k].index].kind]

\* C1: a schema update is all-or-nothing.  The candidate is published as the
\* current snapshot only when every validator and every deferred action
\* returned success; in every other state of an update, and after a rejected
\* update, the current snapshot is the snapshot the update began from.
C1_AllOrNothing ==
  /\ pc = "published" =>
       /\ current = Canonical(candidate)
       /\ AllValidatorsSucceed
       /\ Len(ran) = Len(actions)
       /\ \A k \in 1..Len(ran) : ran[k].ok
  /\ pc # "published" => current = before

C1_Witness ==
  /\ pc = "published"
  /\ current # before
  /\ Len(ran) >= 2

\* C2: if a validator (Validate or ValidateUpdate of any node) returned an
\* error, no deferred action is executed in that update, whatever was
\* registered before the error, by earlier validators or by the failing call.
C2_NoActionAfterValidatorError ==
  /\ ~ok(last_call.status) => ran = <<>>
  /\ (pc \notin {"idle", "building"} /\ ~AllValidatorsSucceed) => ran = <<>>

C2_Witness ==
  /\ pc = "rejected"
  /\ IsUpdateCall(last_call)
  /\ ~ok(last_call.status)
  /\ last_call.added # <<>>
  /\ ran = <<>>

\* C3: the deferred actions are executed in the order of their registration,
\* and a failing action ends the update with its error: it is the first and
\* only action that failed, and no action after it has run.
C3_ActionsInRegistrationOrder ==
  /\ \A k \in 1..Len(ran) : ran[k].index = k
  /\ \A k \in 1..Len(ran) :
       ~ran[k].ok => /\ k = Len(ran)
                     /\ pc = "rejected"
                     /\ status = ActionError(actions[k])

C3_Witness ==
  /\ pc = "rejected"
  /\ Len(ran) = 2
  /\ Len(actions) = 3
  /\ ran[1].ok
  /\ ~ran[2].ok

\* C4: every read is given the snapshot the update began from or, once the
\* update is published, the published snapshot; a candidate that is being
\* built, validated or backfilled, or that was rejected, is never read.
C4_ReadersSeePublishedSnapshots ==
  /\ pc = "published" => observed \subseteq {before, current}
  /\ pc # "published" => observed \subseteq {before}

C4_Witness ==
  /\ pc = "published"
  /\ before # current
  /\ observed = {before, current}

\* C5: a ValidateUpdate call that accepts a change between two different base
\* types registers for the column VerifyColumnTypeChange and, right after
\* it, BackfillColumnValue, each once; and a backfill of a column is never
\* executed unless the type change verification of the same column was
\* executed before it and succeeded.
C5_VerifyBeforeBackfill ==
  /\ ( /\ IsUpdateCall(last_call)
       /\ ok(last_call.status)
       /\ ~NewOf(last_call).is_deleted
       /\ BaseType(NewOf(last_call).type) # BaseType(OldOf(last_call).type) )
     =>
       \E i \in 1..(Len(last_call.added) - 1) :
         /\ last_call.added[i]
              = Action("VerifyColumnTypeChange", last_call.node, 0)
         /\ last_call.added[i + 1]
              = Action("BackfillColumnValue", last_call.node, 0)
         /\ \A j \in 1..Len(last_call.added) :
              last_call.added[j].kind
                  \in {"VerifyColumnTypeChange", "BackfillColumnValue"}
                => j \in {i, i + 1}
  /\ \A k \in 1..Len(ran) :
       KindsRun[k] = "BackfillColumnValue" =>
         \E j \in 1..(k - 1) :
           /\ KindsRun[j] = "VerifyColumnTypeChange"
           /\ actions[ran[j].index].column = actions[ran[k].index].column
           /\ ran[j].ok

C5_Witness ==
  \E k \in 1..Len(ran) : KindsRun[k] = "BackfillColumnValue" /\ ran[k].ok

\* The declared length of new is smaller than that of old, MAX being the
\* largest length.
LengthShrinks(old, new) ==
  /\ new.declared_max_length # NoLength
  /\ \/ old.declared_max_length = NoLength
     \/ new.declared_max_length < old.declared_max_length

\* C7: for an old and a new column of the same STRING or BYTES base type
\* that differ at most in the declared length, ValidateUpdate registers
\* exactly one action, VerifyColumnLength with the new length, when the new
\* length is smaller than the old one, and no action when it is equal or
\* larger (MAX being the largest length).
C7_LengthVerification ==
  ( /\ IsUpdateCall(last_call)
    /\ IsResizeable(BaseType(OldOf(last_call).type))
    /\ NewOf(last_call) =
         [OldOf(last_call) EXCEPT !.declared_max_length =
                                     NewOf(last_call).declared_max_length] )
  =>
    last_call.added =
      IF LengthShrinks(OldOf(last_call), NewOf(last_call))
        THEN <<Action("VerifyColumnLength", last_call.node,
                      NewOf(last_call).declared_max_length)>>
        ELSE <<>>

C7_Witness ==
  /\ IsUpdateCall(last_call)
  /\ OldOf(last_call).type = StringType
  /\ OldOf(last_call).declared_max_length = 2
  /\ NewOf(last_call) = [OldOf(last_call) EXCEPT !.declared_max_length = 1]
  /\ last_call.added = <<Action("VerifyColumnLength", last_call.node, 1)>>
  /\ ok(last_call.status)

\* The generated columns of the candidate that list column c among their
\* dependencies.
Dependents(c) ==
  {d \in DOMAIN candidate.columns :
     /\ is_generated(candidate.columns[d])
     /\ \E j \in 1..Len(candidate.columns[d].dependent_columns) :
          candidate.columns[d].dependent_columns[j] = c}

\* Column c is dropped and a generated column that depends on it survives.
DroppedUnderDependent(c, d) ==
  /\ candidate.columns[c].is_deleted
  /\ d \in Dependents(c)
  /\ ~candidate.columns[d].is_deleted

\* Column c is dropped together with every generated column depending on
\* it, of which there is at least one.
DroppedWithDependents(c) ==
  /\ candidate.columns[c].is_deleted
  /\ Dependents(c) # {}
  /\ \A d \in Dependents(c) : candidate.columns[d].is_deleted

\* The column is the column of the row deletion policy of its table, which
\* survives (the column itself dropped or not a TIMESTAMP any more).
BreaksRowDeletionPolicy(column) ==
  /\ candidate.tables[column.table].row_deletion_policy = column.name
  /\ ~candidate.tables[column.table].is_deleted
  /\ (column.is_deleted \/ column.type # TimestampType)

\* The first half of C8: for a surviving generated column whose dependency
\* is dropped, ValidateUpdate returns
\* InvalidDropColumnReferencedByGeneratedColumn naming both columns.
DropUnderDependentFails ==
  \A c, d \in DOMAIN candidate.columns :
    ( /\ IsUpdateCall(last_call) /\ last_call.node = d
      /\ DroppedUnderDependent(c, d) )
    => /\ last_call.status.code
            = "InvalidDropColumnReferencedByGeneratedColumn"
       /\ last_call.status.other = candidate.columns[d].name
       /\ last_call.status.name = candidate.columns[c].name

C9_RowDeletionPolicy ==
  IsUpdateCall(last_call) =>
    LET column == NewOf(last_call)
        table == candidate.tables[column.table]
    IN last_call.status.code = "RowDeletionPolicyWillBreak"
       <=> /\ table.row_deletion_policy = column.name
           /\ ~table.is_deleted
           /\ (column.is_deleted \/ column.type # TimestampType)

C9_Witness ==
  /\ IsUpdateCall(last_call)
  /\ last_call.status.code = "RowDeletionPolicyWillBreak"
  /\ ~NewOf(last_call).is_deleted
  /\ NewOf(last_call).type # TimestampType

\* needle occurs in hay as a contiguous run of characters.
Contains(hay, needle) ==
  \E i \in 1..(Len(hay) - Len(needle) + 1) :
    SubSeq(hay, i, i + Len(needle) - 1) = needle

\* The status is the change stream report for the column: the number of the
\* change streams tracking it and each of their names.
ReportsChangeStreams(st, column) ==
  LET streams == column.change_streams_explicitly_tracking_column
  IN /\ st.code = "DropColumnWithChangeStream"
     /\ st.count = Len(streams)
     /\ \A i \in 1..Len(streams) : Contains(st.names, streams[i])

\* C10 as amended: ValidateUpdate never returns success for a dropped column
\* that change streams track explicitly; the error is
\* DropColumnWithChangeStream with the number and the names of these change
\* streams, unless the column is the row deletion policy column of a
\* surviving table, for which RowDeletionPolicyWillBreak is returned.
C10_DropTrackedColumn ==
  ( /\ IsUpdateCall(last_call)
    /\ NewOf(last_call).is_deleted
    /\ NewOf(last_call).change_streams_explicitly_tracking_column # <<>> )
  => /\ ~ok(last_call.status)
     /\ IF BreaksRowDeletionPolicy(NewOf(last_call))
          THEN last_call.status.code = "RowDeletionPolicyWillBreak"
          ELSE ReportsChangeStreams(last_call.status, NewOf(last_call))

\* C10 as stated: the rejection always reports the number and the names of
\* the change streams.
C10_Original ==
  ( /\ IsUpdateCall(last_call)
    /\ NewOf(last_call).is_deleted
    /\ NewOf(last_call).change_streams_explicitly_tracking_column # <<>> )
  => /\ ~ok(last_call.status)
     /\ ReportsChangeStreams(last_call.status, NewOf(last_call))

C10_Witness ==
  /\ IsUpdateCall(last_call)
  /\ NewOf(last_call).is_deleted
  /\ Len(NewOf(last_call).change_streams_explicitly_tracking_column) = 2
  /\ last_call.status.code = "DropColumnWithChangeStream"
  /\ last_call.status.count = 2
  /\ last_call.status.names = <<"c", "s", "1", "c", "s", "2">>

\* Some sequence the column uses is dropped in the candidate.
UsesDroppedSequence(column) ==
  \E i \in 1..Len(column.sequences_used) :
    candidate.sequences[column.sequences_used[i]].is_deleted

\* The errors of the checks ValidateUpdate makes on a surviving column
\* before it looks at the sequences the column uses.
EarlierRejections ==
  {"RowDeletionPolicyWillBreak", "INTERNAL",
   "InvalidDropColumnReferencedByGeneratedColumn",
   "CannotConvertRegularColumnToGeneratedColumn",
   "CannotConvertGeneratedColumnToRegularColumn",
   "CannotAlterStoredGeneratedColumnDataType",
   "CannotAlterGeneratedColumnExpression",
   "CannotAlterGeneratedColumnStoredAttribute",
   "CannotAlterColumnDataTypeWithDependentStoredGeneratedColumn",
   "InvalidDropColumnWithDependency", "CannotChangeColumnType"}

C11_ColumnDroppedToo ==
  /\ IsUpdateCall(last_call)
  /\ NewOf(last_call).is_deleted
  /\ UsesDroppedSequence(NewOf(last_call))
  /\ ok(last_call.status)

\* The errors of the checks ValidateUpdate makes on a surviving column
\* before it registers any action.
RejectionsBeforeActions == EarlierRejections \ {"CannotChangeColumnType"}

\* The call went past the checks that come before the registrations.
ReachedRegistrations ==
  /\ IsUpdateCall(last_call)
  /\ ~NewOf(last_call).is_deleted
  /\ last_call.status.code \notin RejectionsBeforeActions

\* The actions of the given kind the call registered.
AddedOfKind(kind) == SelectSeq(last_call.added, LAMBDA a : a.kind = kind)

\* C22: for a surviving column that passes the earlier checks ValidateUpdate
\* registers one VerifyColumnNotNull action, for that column, exactly when
\* the old column is nullable and the new column is not; it registers none
\* when the nullability is unchanged or goes from NOT NULL to nullable.
C22_NotNullVerification ==
  ReachedRegistrations =>
    AddedOfKind("VerifyColumnNotNull") =
      IF OldOf(last_call).is_nullable /\ ~NewOf(last_call).is_nullable
        THEN <<Action("VerifyColumnNotNull", last_call.node, 0)>>
        ELSE <<>>

C22_Witness ==
  /\ ReachedRegistrations
  /\ ok(last_call.status)
  /\ OldOf(last_call).is_nullable
  /\ ~NewOf(last_call).is_nullable
  /\ last_call.added = <<Action("VerifyColumnNotNull", last_call.node, 0)>>

\* The opposite change registers nothing.
C22_MadeNullable ==
  /\ ReachedRegistrations
  /\ ~OldOf(last_call).is_nullable
  /\ NewOf(last_call).is_nullable
  /\ last_call.added = <<>>

\* The call went past every check that can reject before the commit
\* timestamp registration, the check of the type change included.
ReachedCommitTimestampRule ==
  /\ IsUpdateCall(last_call)
  /\ ~NewOf(last_call).is_deleted
  /\ last_call.status.code \notin EarlierRejections

\* What C23 says the call registers for the commit timestamp option.
ExpectedCommitTimestampActions ==
  IF /\ allows_commit_timestamp(NewOf(last_call))
     /\ ~allows_commit_timestamp(OldOf(last_call))
    THEN <<Action("VerifyColumnCommitTimestamp", last_call.node, 0)>>
    ELSE <<>>

\* C23: for a surviving TIMESTAMP column that none of the earlier checks of
\* the call rejects (the check of the type change is one of them),
\* ValidateUpdate registers one VerifyColumnCommitTimestamp action exactly
\* when the new column allows commit timestamps and the old column did not;
\* disabling the option or leaving it unchanged registers none.
C23_CommitTimestampVerification ==
  ( ReachedCommitTimestampRule /\ IsTimestamp(NewOf(last_call).type) )
  => AddedOfKind("VerifyColumnCommitTimestamp")
       = ExpectedCommitTimestampActions

\* C23 as stated: for every surviving TIMESTAMP column.
C23_Original ==
  ( /\ IsUpdateCall(last_call)
    /\ ~NewOf(last_call).is_deleted
    /\ IsTimestamp(NewOf(last_call).type) )
  => AddedOfKind("VerifyColumnCommitTimestamp")
       = ExpectedCommitTimestampActions

C23_Witness ==
  /\ ReachedCommitTimestampRule
  /\ IsTimestamp(OldOf(last_call).type)
  /\ allows_commit_timestamp(NewOf(last_call))
  /\ ~allows_commit_timestamp(OldOf(last_call))
  /\ ok(last_call.status)
  /\ last_call.added
       = <<Action("VerifyColumnCommitTimestamp", last_call.node, 0)>>

\* Disabling the option registers nothing.
C23_Disabled ==
  /\ ReachedCommitTimestampRule
  /\ allows_commit_timestamp(OldOf(last_call))
  /\ NewOf(last_call).allows_commit_timestamp = "false"
  /\ last_call.added = <<>>

\* The column is the row deletion policy column of a table that survives.
IsPolicyColumnOfSurvivingTable(column) ==
  /\ candidate.tables[column.table].row_deletion_policy = column.name
  /\ ~candidate.tables[column.table].is_deleted

\* C24: a deleted column is exempt from the forward-compatibility checks.
\* For a deleted column that is neither the row deletion policy column of a
\* surviving table nor explicitly tracked by a change stream, ValidateUpdate
\* returns success and registers no action, whatever the old and the new
\* column differ in.
C24_DeletedColumnExempt ==
  ( /\ IsUpdateCall(last_call)
    /\ NewOf(last_call).is_deleted
    /\ ~IsPolicyColumnOfSurvivingTable(NewOf(last_call))
    /\ NewOf(last_call).change_streams_explicitly_tracking_column = <<>> )
  => /\ ok(last_call.status)
     /\ last_call.added = <<>>

\* A column altered in type and nullability and then dropped, using a
\* sequence or not.
C24_Witness ==
  /\ IsUpdateCall(last_call)
  /\ NewOf(last_call).is_deleted
  /\ ~IsAllowedTypeChange(OldOf(last_call).type, NewOf(last_call).type)
  /\ OldOf(last_call).is_nullable /\ ~NewOf(last_call).is_nullable
  /\ ok(last_call.status)
  /\ last_call.added = <<>>

\* A dropped column that uses a dropped sequence, validated after a column
\* that registered an action: the list is left as it was.
C24_AfterRegistration ==
  /\ IsUpdateCall(last_call)
  /\ NewOf(last_call).is_deleted
  /\ is_generated(NewOf(last_call))
  /\ actions # <<>>
  /\ last_call.added = <<>>
  /\ ok(last_call.status)

\* The node was validated as a surviving column.
ValidatedSurviving ==
  /\ last_call.validator \in {"Validate", "ValidateUpdate"}
  /\ ~NewOf(last_call).is_deleted

\* Validate rejected the column of the call.
RejectedByValidate == last_call.validator = "Validate" /\ ~ok(last_call.status)

\* C25: every column that passes Validate with commit timestamps allowed is
\* a TIMESTAMP column without a default value.  Validate rejects a column
\* that carries the option on another type and a column that has a default
\* value and allows commit timestamps.
C25_CommitTimestampOption ==
  ValidatedSurviving =>
    /\ ( /\ has_allows_commit_timestamp(NewOf(last_call))
         /\ ~IsTimestamp(NewOf(last_call).type) ) => RejectedByValidate
    /\ ( /\ NewOf(last_call).has_default_value
         /\ allows_commit_timestamp(NewOf(last_call)) ) => RejectedByValidate
    /\ ( IsUpdateCall(last_call) /\ allows_commit_timestamp(NewOf(last_call)) )
         => /\ IsTimestamp(NewOf(last_call).type)
            /\ ~NewOf(last_call).has_default_value

\* A TIMESTAMP column with a default value is given the option.
C25_Witness ==
  /\ ValidatedSurviving
  /\ IsTimestamp(NewOf(last_call).type)
  /\ NewOf(last_call).has_default_value
  /\ allows_commit_timestamp(NewOf(last_call))
  /\ last_call.status.code = "CannotUseCommitTimestampWithColumnDefaultValue"

\* The option, set to false, on a STRING column.
C25_OptionOnString ==
  /\ ValidatedSurviving
  /\ NewOf(last_call).type = StringType
  /\ NewOf(last_call).allows_commit_timestamp = "false"
  /\ last_call.status.code = "UnallowedCommitTimestampOption"

\* A column that allows commit timestamps passes.
C25_Passes ==
  /\ IsUpdateCall(last_call)
  /\ ~NewOf(last_call).is_deleted
  /\ allows_commit_timestamp(NewOf(last_call))

\* The not-null verification a call registers for the column of the call.
ExpectedNotNullActions ==
  IF OldOf(last_call).is_nullable /\ ~NewOf(last_call).is_nullable
    THEN <<Action("VerifyColumnNotNull", last_call.node, 0)>>
    ELSE <<>>

\* The candidate with its sequences as they were when the update began.
WithSequencesKept == [candidate EXCEPT !.sequences = before.sequences]

\* C27: what a failed call of ValidateUpdate leaves in the list of deferred
\* actions.  A call that fails in a check that comes before the
\* registrations has registered no action.  A call that fails on an illegal
\* type change has registered the not-null verification when the column
\* becomes NOT NULL and nothing else; a call that fails on a dropped
\* sequence has registered every action the call would register were the
\* sequence kept.
C27_ActionsOfFailedCall ==
  ( IsUpdateCall(last_call) /\ ~ok(last_call.status) )
  => /\ last_call.status.code \in
          RejectionsBeforeActions \cup {"DropColumnWithChangeStream"}
          => last_call.added = <<>>
     /\ last_call.status.code = "CannotChangeColumnType"
          => last_call.added = ExpectedNotNullActions
     /\ last_call.status.code = "InvalidDropSequenceWithColumnDependents"
          => /\ AddedOfKind("VerifyColumnNotNull") = ExpectedNotNullActions
             /\ last_call.added =
                  ValidateUpdate(NewOf(last_call), OldOf(last_call),
                                 WithSequencesKept, <<>>).actions
     /\ last_call.status.code \in
          RejectionsBeforeActions
            \cup {"DropColumnWithChangeStream", "CannotChangeColumnType",
                  "InvalidDropSequenceWithColumnDependents"}

\* C27 as stated: a call that fails has registered no action.
C27_Original ==
  ( IsUpdateCall(last_call) /\ ~ok(last_call.status) )
  => last_call.added = <<>>

C27_Witness ==
  /\ IsUpdateCall(last_call)
  /\ last_call.status.code = "CannotChangeColumnType"
  /\ last_call.added = <<Action("VerifyColumnNotNull", last_call.node, 0)>>
  /\ pc = "rejected"

\* The failure on a dropped sequence, after a registration.
C27_SequenceAfterRegistration ==
  /\ IsUpdateCall(last_call)
  /\ last_call.status.code = "InvalidDropSequenceWithColumnDependents"
  /\ last_call.added # <<>>

\* A failure before the registrations, for a column that becomes NOT NULL.
C27_EarlyFailure ==
  /\ IsUpdateCall(last_call)
  /\ ~NewOf(last_call).is_deleted
  /\ last_call.status.code \in RejectionsBeforeActions
  /\ ExpectedNotNullActions # <<>>
  /\ last_call.added = <<>>

\* The kinds of the actions the call registered, in order.
KindsAdded == [i \in 1..Len(last_call.added) |-> last_call.added[i].kind]

\* C28: one call of ValidateUpdate registers at most three actions, in the
\* order: the not-null verification, then either one length verification
\* or the pair type-change verification and backfill, then the commit
\* timestamp verification.  A length verification never comes with the
\* pair, and a commit timestamp verification never comes with a length
\* verification or the pair.
C28_RegistrationShape ==
  IsUpdateCall(last_call) =>
    /\ Len(last_call.added) <= 3
    /\ KindsAdded \in
         {not_null \o rest :
            not_null \in {<<>>, <<"VerifyColumnNotNull">>},
            rest \in {<<>>, <<"VerifyColumnLength">>,
                      <<"VerifyColumnTypeChange", "BackfillColumnValue">>,
                      <<"VerifyColumnCommitTimestamp">>}}
    /\ \A i \in 1..Len(last_call.added) :
         last_call.added[i].column = last_call.node

C28_Witness ==
  /\ IsUpdateCall(last_call)
  /\ ok(last_call.status)
  /\ KindsAdded = <<"VerifyColumnNotNull", "VerifyColumnTypeChange",
                    "BackfillColumnValue">>

\* The other two-step shapes.
C28_NotNullThenCommitTimestamp ==
  /\ IsUpdateCall(last_call)
  /\ KindsAdded = <<"VerifyColumnNotNull", "VerifyColumnCommitTimestamp">>

C28_NotNullThenLength ==
  /\ IsUpdateCall(last_call)
  /\ KindsAdded = <<"VerifyColumnNotNull", "VerifyColumnLength">>

-----------------------------------------------------------------------------
(* IsAllowedTypeChange as a function of its two arguments: every pair of    *)
(* column types is an input.                                                *)

InitTypeChange ==
  /\ pc = "call"
  /\ args \in ColumnTypes \X ColumnTypes
  /\ result = FALSE
  /\ current = NoSchema
  /\ before = NoSchema
  /\ candidate = NoSchema
  /\ nstmts = 0
  /\ next_node = 1
  /\ actions = <<>>
  /\ ran = <<>>
  /\ status = OkStatus
  /\ last_call = NoCall
  /\ observed = {}

CallIsAllowedTypeChange ==
  /\ pc = "call"
  /\ result' = IsAllowedTypeChange(args[1], args[2])
  /\ pc' = "done"
  /\ UNCHANGED <<args, current, before, candidate, nstmts, next_node,
                 actions, ran, status, last_call, observed>>

NextTypeChange == CallIsAllowedTypeChange

SpecTypeChange == InitTypeChange /\ [][NextTypeChange]_vars

\* The conversions between scalar types, as unordered pairs of kinds.
ScalarConversions ==
  {{"STRING", "BYTES"}, {"PROTO", "BYTES"}, {"PROTO"}, {"ENUM"},
   {"ENUM", "INT64"}}

\* Two scalar types are equal or form one of the conversions.
ScalarChangeAllowed(a, b) == a = b \/ {a.kind, b.kind} \in ScalarConversions

\* C6: IsAllowedTypeChange(old, new) is true exactly when the types are
\* equal, or both are arrays whose element types may be changed into each
\* other, or both are scalars forming one of STRING/BYTES, PROTO/BYTES,
\* PROTO/PROTO, ENUM/ENUM, ENUM/INT64; it is false for an array and a
\* non-array, and it is the same in both directions.
C6_AllowedTypeChanges ==
  pc = "done" =>
    LET old == args[1]
        new == args[2]
    IN /\ result <=>
            \/ old = new
            \/ /\ old.array /\ new.array
               /\ ScalarChangeAllowed(BaseType(old), BaseType(new))
            \/ /\ ~old.array /\ ~new.array
               /\ {old.kind, new.kind} \in ScalarConversions
       /\ old.array # new.array => ~result
       /\ result = IsAllowedTypeChange(new, old)

C6_Witness ==
  /\ pc = "done"
  /\ result
  /\ args[1] = ArrayType(ScalarType("BYTES", ""))
  /\ args[2] = ArrayType(ScalarType("PROTO", "pkg.M1"))

-----------------------------------------------------------------------------
(* KeyColumnValidator.  A key column is a (column, ordering) pair; the      *)
(* table of its column may have a parent table and child tables             *)
(* (interleaving).                                                          *)

\* A null pointer to a table (Table::parent()).
NoTable == "none"

\* Table::FindColumn(name): the table has a column of that name.
FindColumn(table, name, g) ==
  \E i \in 1..Len(table.columns) : g.columns[table.columns[i]].name = name

\* The child tables that have a key column of the name of the column
\* (lines 405-406), as positions in children().
ChildrenKeyedBy(column, g) ==
  {i \in 1..Len(TableOf(column, g).children) :
     FindKeyColumn(g.tables[TableOf(column, g).children[i]], column.name)}

\* A slip of the interleaving rule: the answer of IsModifiedNode is ignored.
InterleavingRejectionIgnoringModified(column, old_column, g, modified) ==
  LET is_commit_timestamp_option_change ==
        allows_commit_timestamp(column) # allows_commit_timestamp(old_column)
      table_parent == TableOf(column, g).parent
  IN IF ~is_commit_timestamp_option_change
       THEN IF /\ table_parent # NoTable
               /\ FindColumn(g.tables[table_parent], column.name, g)
              THEN Error("AlteringParentColumn", column.name, "", 0, <<>>)
            ELSE IF ChildrenKeyedBy(column, g) # {}
              THEN Error("CannotChangeKeyColumnWithChildTables", column.name,
                         "", 0, <<>>)
            ELSE OkStatus
       ELSE OkStatus

\* A slip of the interleaving rule: the exemption of a change of the commit
\* timestamp option is forgotten.
InterleavingRejectionNoExemption(column, old_column, g, modified) ==
  LET table_parent == TableOf(column, g).parent
  IN IF modified
       THEN IF /\ table_parent # NoTable
               /\ FindColumn(g.tables[table_parent], column.name, g)
              THEN Error("AlteringParentColumn", column.name, "", 0, <<>>)
            ELSE IF ChildrenKeyedBy(column, g) # {}
              THEN Error("CannotChangeKeyColumnWithChildTables", column.name,
                         "", 0, <<>>)
            ELSE OkStatus
       ELSE OkStatus

\* KeyColumnValidator::ValidateUpdate, lines 390-412: the rejection of an
\* altered column that is a key of interleaved tables; modified is the
\* answer of context->IsModifiedNode(column), old_column the column of the
\* old key column.
InterleavingRejection(column, old_column, g, modified) ==
  LET is_commit_timestamp_option_change ==
        allows_commit_timestamp(column) # allows_commit_timestamp(old_column)
      table_parent == TableOf(column, g).parent
  IN IF modified /\ ~is_commit_timestamp_option_change
       THEN IF /\ table_parent # NoTable
               /\ FindColumn(g.tables[table_parent], column.name, g)
              THEN Error("AlteringParentColumn", column.name, "", 0, <<>>)
            ELSE IF ChildrenKeyedBy(column, g) # {}
              THEN Error("CannotChangeKeyColumnWithChildTables", column.name,
                         "", 0, <<>>)
            ELSE OkStatus
       ELSE OkStatus

\* A slip of KeyColumnValidator::ValidateUpdate: the check of the ordering
\* is left out.
KeyColumnValidateUpdateNoOrderCheck(key_column, old_key_column, g, old_g, modified) ==
  IF key_column.is_deleted THEN OkStatus
  ELSE IF ~ok(InterleavingRejection(g.columns[key_column.column],
                old_g.columns[old_key_column.column], g, modified))
    THEN InterleavingRejection(g.columns[key_column.column],
             old_g.columns[old_key_column.column], g, modified)
  ELSE IF g.columns[key_column.column].is_deleted
    THEN RetCheckFailed(g.columns[key_column.column].name)
  ELSE OkStatus

\* A slip of KeyColumnValidator::ValidateUpdate: the column of the key is
\* not looked at for deletion.
KeyColumnValidateUpdateNoColumnCheck(key_column, old_key_column, g, old_g, modified) ==
  IF key_column.is_deleted THEN OkStatus
  ELSE IF ~ok(InterleavingRejection(g.columns[key_column.column],
                old_g.columns[old_key_column.column], g, modified))
    THEN InterleavingRejection(g.columns[key_column.column],
             old_g.columns[old_key_column.column], g, modified)
  ELSE IF key_column.is_descending # old_key_column.is_descending
    THEN RetCheckFailed(g.columns[key_column.column].name)
  ELSE OkStatus

\* KeyColumnValidator::ValidateUpdate(key_column, old_key_column, context);
\* g holds key_column and its column, old_g the old key column and its
\* column.
KeyColumnValidateUpdate(key_column, old_key_column, g, old_g, modified) ==
  IF key_column.is_deleted THEN OkStatus
  ELSE IF ~ok(InterleavingRejection(g.columns[key_column.column],
                old_g.columns[old_key_column.column], g, modified))
    THEN InterleavingRejection(g.columns[key_column.column],
             old_g.columns[old_key_column.column], g, modified)
  ELSE IF g.columns[key_column.column].is_deleted
    THEN RetCheckFailed(g.columns[key_column.column].name)
  ELSE IF key_column.is_descending # old_key_column.is_descending
    THEN RetCheckFailed(g.columns[key_column.column].name)
  ELSE OkStatus

(* The schemas of the key column model: a table with a TIMESTAMP column K   *)
(* that is its key, optionally a parent table, and child tables.            *)

MaxChildren == 1      \* child tables interleaved in the table
MaxGenerations == 1   \* schema updates accepted one after the other

\* The key column K of the table: nullability and the commit timestamp
\* option are the attributes an update may alter.
KeyedColumn(nullable, ct, deleted) ==
  [NewColumn("c1", "K", TimestampType, NoLength, nullable) EXCEPT
     !.allows_commit_timestamp = ct, !.is_deleted = deleted]

KeyColumn(descending, deleted) ==
  [column |-> "c1", is_descending |-> descending, is_deleted |-> deleted]

\* The key columns of the child tables, by name, one choice per child.
ChildKeys ==
  UNION {[1..n -> {"K", "Y"}] : n \in 0..MaxChildren}

ChildId(i) == <<"t2", "t3", "t4", "t5">>[i]

\* A table of the interleaving: its columns, its key columns by name, its
\* parent and its children.
InterleavedTable(name, columns, key_columns, parent, children) ==
  [name |-> name, is_deleted |-> FALSE, row_deletion_policy |-> NoPolicy,
   columns |-> columns, key_columns |-> key_columns, owner_index |-> NoColumn,
   parent |-> parent, children |-> children]

\* The graph: table t1 keyed by K; parent_column is the name of the column
\* of the parent table t0 ("" when there is no parent table); child_keys
\* are the key columns of the child tables.
KeySchema(column, key_column, parent_column, child_keys) ==
  [tables |->
     [t \in {"t0", "t1"} \cup {ChildId(i) : i \in 1..Len(child_keys)} |->
        IF t = "t1"
          THEN InterleavedTable("T", <<"c1">>, <<"K">>,
                 IF parent_column = "" THEN NoTable ELSE "t0",
                 [i \in 1..Len(child_keys) |-> ChildId(i)])
        ELSE IF t = "t0"
          THEN InterleavedTable("P", <<"c0">>, <<parent_column>>, NoTable,
                                <<"t1">>)
        ELSE InterleavedTable("C", <<>>,
               <<child_keys[CHOOSE i \in 1..Len(child_keys) : ChildId(i) = t]>>,
               "t1", <<>>)],
   columns |->
     [c \in {"c0", "c1"} |->
        IF c = "c1" THEN column
        ELSE [NewColumn("c0", parent_column, TimestampType, NoLength, FALSE)
                EXCEPT !.table = "t0"]],
   key_columns |-> [k \in {"k1"} |-> key_column],
   sequences |-> <<>>, proto_bundle |-> {}, enable_generated_pk |-> FALSE]

\* The published schemas: the key column and its column are live.
KeySchemas ==
  {KeySchema(KeyedColumn(nullable, ct, FALSE), KeyColumn(descending, FALSE),
             parent_column, child_keys) :
     <<nullable, ct, descending, parent_column, child_keys>> \in
       BOOLEAN \X {"unset", "true", "false"} \X BOOLEAN \X {"", "K", "X"}
         \X ChildKeys}

\* The candidates an update builds from g: the column of the key is
\* altered or dropped, the key column rebuilt or dropped.
KeyCandidates(g) ==
  {[g EXCEPT !.columns["c1"] = KeyedColumn(nullable, ct, column_deleted),
             !.key_columns["k1"] = KeyColumn(descending, deleted)] :
     <<nullable, ct, column_deleted, descending, deleted>> \in
       BOOLEAN \X {"unset", "true", "false"} \X BOOLEAN \X BOOLEAN \X BOOLEAN}

\* One update: the candidate is built, and the validation context answers
\* IsModifiedNode for the column of the key.
InitKeyColumn ==
  /\ pc = "call"
  /\ current \in KeySchemas
  /\ before = current
  /\ candidate \in KeyCandidates(current)
  /\ args \in [modified : BOOLEAN]
  /\ result = FALSE
  /\ nstmts = 0
  /\ next_node = 1
  /\ actions = <<>>
  /\ ran = <<>>
  /\ status = OkStatus
  /\ last_call = NoCall
  /\ observed = {}

CallKeyColumnValidateUpdate ==
  /\ pc = "call"
  /\ last_call' = Call("KeyColumnValidator::ValidateUpdate", "k1",
                       KeyColumnValidateUpdate(candidate.key_columns["k1"],
                         current.key_columns["k1"], candidate, current,
                         args.modified),
                       <<>>)
  /\ status' = last_call'.status
  /\ pc' = "done"
  /\ UNCHANGED <<args, current, before, candidate, nstmts, next_node,
                 actions, ran, result, observed>>

\* The update succeeded and left the key column in place: its candidate is
\* the published schema the next update starts from.
NextGeneration ==
  /\ pc = "done"
  /\ ok(status)
  /\ ~candidate.key_columns["k1"].is_deleted
  /\ nstmts < MaxGenerations
  /\ current' = candidate
  /\ candidate' \in KeyCandidates(candidate)
  /\ args' \in [modified : BOOLEAN]
  /\ nstmts' = nstmts + 1
  /\ pc' = "call"
  /\ UNCHANGED <<before, next_node, actions, ran, status, last_call, result,
                 observed>>

NextKeyColumn == CallKeyColumnValidateUpdate \/ NextGeneration

SpecKeyColumn == InitKeyColumn /\ [][NextKeyColumn]_vars

\* The key column of the update, its old version, and their columns.
NewKey == candidate.key_columns["k1"]
OldKey == current.key_columns["k1"]
NewKeyed == candidate.columns[NewKey.column]
OldKeyed == current.columns[OldKey.column]

\* ValidateUpdate of a surviving key column has returned.
KeyUpdateDone == pc = "done" /\ ~NewKey.is_deleted

\* The parent table of the table of the key has a column of the key's name.
ParentSharesColumn ==
  /\ candidate.tables[NewKeyed.table].parent # NoTable
  /\ \E c \in DOMAIN candidate.columns :
       /\ candidate.columns[c].table
            = candidate.tables[NewKeyed.table].parent
       /\ candidate.columns[c].name = NewKeyed.name

\* A child table of the table of the key has a key column of the key's name.
ChildSharesKey ==
  \E t \in DOMAIN candidate.tables :
    /\ candidate.tables[t].parent = NewKeyed.table
    /\ \E j \in 1..Len(candidate.tables[t].key_columns) :
         candidate.tables[t].key_columns[j] = NewKeyed.name

\* The errors of the interleaving rule.
InterleavingErrors ==
  {"AlteringParentColumn", "CannotChangeKeyColumnWithChildTables"}

\* The commit timestamp option, as allows_commit_timestamp() reads it, is
\* the same in the old and the new column.
CommitTimestampUnchanged ==
  (NewKeyed.allows_commit_timestamp = "true")
    = (OldKeyed.allows_commit_timestamp = "true")

\* C12: the descending flag of a key column is immutable.  ValidateUpdate
\* of a surviving key column fails whenever the old and the new key column
\* differ in is_descending, so through every sequence of successful updates
\* a surviving key column keeps the ordering it was created with.
C12_DescendingImmutable ==
  /\ ( KeyUpdateDone /\ NewKey.is_descending # OldKey.is_descending )
       => ~ok(last_call.status)
  /\ OldKey.is_descending = before.key_columns["k1"].is_descending

C12_Witness ==
  /\ KeyUpdateDone
  /\ nstmts = 1
  /\ NewKey.is_descending /\ ~OldKey.is_descending
  /\ ~NewKeyed.is_deleted
  /\ last_call.status.code = "INTERNAL"

\* C13: for a surviving key column whose column is a modified node and
\* whose commit timestamp option is unchanged, ValidateUpdate returns
\* AlteringParentColumn when the parent table has a column of the same name,
\* and otherwise CannotChangeKeyColumnWithChildTables when a child table has
\* a key column of the same name; a key column whose column is not modified
\* is never rejected by this rule.
C13_InterleavedKeyAlteration ==
  /\ ( KeyUpdateDone /\ args.modified /\ CommitTimestampUnchanged )
       => /\ ParentSharesColumn
               => last_call.status.code = "AlteringParentColumn"
          /\ ~ParentSharesColumn /\ ChildSharesKey
               => last_call.status.code
                    = "CannotChangeKeyColumnWithChildTables"
          /\ ~ParentSharesColumn /\ ~ChildSharesKey
               => last_call.status.code \notin InterleavingErrors
  /\ ( pc = "done" /\ ~args.modified )
       => last_call.status.code \notin InterleavingErrors

C13_Witness ==
  /\ KeyUpdateDone /\ args.modified /\ CommitTimestampUnchanged
  /\ ~ParentSharesColumn /\ ChildSharesKey
  /\ NewKeyed.is_nullable # OldKeyed.is_nullable
  /\ last_call.status.code = "CannotChangeKeyColumnWithChildTables"

\* C14 as amended: the exemption from the interleaving rule is the broader
\* one.  A modification of the column of an interleaved key is rejected by
\* the rule exactly when allows_commit_timestamp() is the same in the old
\* and the new column; when it differs the modification is exempt, also
\* when another attribute changes in the same update.
C14_CommitTimestampExemption ==
  ( /\ KeyUpdateDone /\ args.modified
    /\ (ParentSharesColumn \/ ChildSharesKey) )
  => ( last_call.status.code \in InterleavingErrors
         <=> CommitTimestampUnchanged )

\* C14 as stated: the exemption is the narrower one; a change of the commit
\* timestamp option together with another attribute is rejected.
C14_Original ==
  ( /\ KeyUpdateDone /\ args.modified
    /\ (ParentSharesColumn \/ ChildSharesKey) )
  => ( last_call.status.code \notin InterleavingErrors
         <=> /\ ~CommitTimestampUnchanged
             /\ NewKeyed = [OldKeyed EXCEPT !.allows_commit_timestamp =
                                      NewKeyed.allows_commit_timestamp] )

C14_Witness ==
  /\ KeyUpdateDone /\ args.modified
  /\ ParentSharesColumn
  /\ ~CommitTimestampUnchanged
  /\ NewKeyed.is_nullable # OldKeyed.is_nullable
  /\ NewKey.is_descending = OldKey.is_descending
  /\ ok(last_call.status)

\* C26: the column of a key column exists and is not deleted.  ValidateUpdate
\* accepts a deleted key column without any further check and fails for
\* every surviving key column whose column is deleted, so the key column of
\* every schema published by a successful update refers to a surviving
\* column.
C26_KeyColumnRefersToLiveColumn ==
  /\ ( pc = "done" /\ NewKey.is_deleted ) => ok(last_call.status)
  /\ ( KeyUpdateDone /\ NewKeyed.is_deleted ) => ~ok(last_call.status)
  /\ ~OldKey.is_deleted => ~OldKeyed.is_deleted

\* The column of a surviving key is dropped, in the second update.
C26_Witness ==
  /\ KeyUpdateDone
  /\ nstmts = 1
  /\ NewKeyed.is_deleted
  /\ ~args.modified
  /\ last_call.status.code = "INTERNAL"
  /\ NewKey.is_descending = OldKey.is_descending

\* A deleted key column is accepted whatever else changed.
C26_DeletedKeyAccepted ==
  /\ pc = "done"
  /\ NewKey.is_deleted
  /\ NewKey.is_descending # OldKey.is_descending
  /\ NewKeyed.is_deleted
  /\ args.modified
  /\ ParentSharesColumn
  /\ ok(last_call.status)

-----------------------------------------------------------------------------
(* ColumnValidator::ValidateUpdate over the alterations of one column: a    *)
(* table with a regular column A and a column B that is regular or          *)
(* generated from A; an update rebuilds one of the two columns.             *)

\* The types of the columns.
PairTypes == {StringType, BytesType, Int64Type}

\* The expressions of column B: none, or one of two expressions over A.
Expressions == {NoExpression, "A", "A+1"}

ColumnB(type, expression, stored) ==
  [NewColumn("c2", "B", type, NoLength, TRUE) EXCEPT
     !.expression = expression, !.is_stored = stored,
     !.dependent_columns =
        IF expression = NoExpression THEN <<>> ELSE <<"c1">>]

\* The versions of A and of B a schema can hold.
VersionsOfA ==
  {ColumnA(type, NoLength, TRUE, "unset", 0, FALSE) : type \in PairTypes}

VersionsOfB ==
  {ColumnB(type, expression, stored) :
     <<type, expression, stored>> \in
       {x \in {StringType, Int64Type} \X Expressions \X BOOLEAN :
          x[2] = NoExpression => ~x[3]}}

PairSchema(a, b) ==
  [tables |-> [t \in {"t1"} |-> TableT(NoPolicy, TRUE)],
   columns |-> [c \in {"c1", "c2"} |-> IF c = "c1" THEN a ELSE b],
   sequences |-> <<>>, proto_bundle |-> Descriptors,
   enable_generated_pk |-> FALSE]

PairSchemas == {PairSchema(a, b) : a \in VersionsOfA, b \in VersionsOfB}

\* The ways an update rebuilds column c: any version of it, under the same
\* or under a new id, surviving or dropped.
Rebuilt(c) ==
  {[v EXCEPT !.id = id, !.is_deleted = deleted] :
     v \in (IF c = "c1" THEN VersionsOfA ELSE VersionsOfB),
     id \in {c, "c9"}, deleted \in BOOLEAN}

InitColumnUpdate ==
  /\ pc = "call"
  /\ current \in PairSchemas
  /\ before = current
  /\ args \in [node : {"c1", "c2"}]
  /\ candidate \in {[current EXCEPT !.columns[args.node] = v] :
                      v \in Rebuilt(args.node)}
  /\ result = FALSE
  /\ nstmts = 0
  /\ next_node = 1
  /\ actions = <<>>
  /\ ran = <<>>
  /\ status = OkStatus
  /\ last_call = NoCall
  /\ observed = {}

\* ValidateUpdate of the rebuilt column against its published version.
CallValidateUpdate ==
  /\ pc = "call"
  /\ LET r == ValidateUpdate(candidate.columns[args.node],
                             current.columns[args.node], candidate, <<>>)
     IN /\ last_call' = Call("ValidateUpdate", args.node, r.status, r.actions)
        /\ status' = r.status
        /\ actions' = r.actions
  /\ pc' = "done"
  /\ UNCHANGED <<args, current, before, candidate, nstmts, next_node, ran,
                 result, observed>>

\* The update succeeded and the column survives: the candidate is published
\* and the next update rebuilds a column of it.
NextColumnGeneration ==
  /\ pc = "done"
  /\ ok(status)
  /\ ~candidate.columns[args.node].is_deleted
  /\ nstmts < MaxGenerations
  /\ current' = candidate
  /\ \E node \in {"c1", "c2"} :
       /\ args' = [node |-> node]
       /\ candidate' \in {[candidate EXCEPT !.columns[node] = v] :
                            v \in Rebuilt(node)}
  /\ nstmts' = nstmts + 1
  /\ actions' = <<>>
  /\ pc' = "call"
  /\ UNCHANGED <<before, next_node, ran, status, last_call, result, observed>>

NextColumnUpdate == CallValidateUpdate \/ NextColumnGeneration

SpecColumnUpdate == InitColumnUpdate /\ [][NextColumnUpdate]_vars

\* The rebuilt column and its published version.
Updated == candidate.columns[args.node]
Published == current.columns[args.node]

\* ValidateUpdate of a surviving column has returned.
ColumnUpdateDone == pc = "done" /\ ~Updated.is_deleted

\* Exactly one of the two versions of the column is generated.
GenerationToggled ==
  (Updated.expression = NoExpression) # (Published.expression = NoExpression)

BothGenerated ==
  Updated.expression # NoExpression /\ Published.expression # NoExpression

GeneratedErrors ==
  {"CannotConvertRegularColumnToGeneratedColumn",
   "CannotConvertGeneratedColumnToRegularColumn",
   "CannotAlterStoredGeneratedColumnDataType",
   "CannotAlterGeneratedColumnExpression",
   "CannotAlterGeneratedColumnStoredAttribute"}

\* The error of the rule on generated columns for the two versions, "OK"
\* when the rule has nothing to object to.
ExpectedGeneratedError ==
  IF GenerationToggled
    THEN IF Updated.expression # NoExpression
           THEN "CannotConvertRegularColumnToGeneratedColumn"
           ELSE "CannotConvertGeneratedColumnToRegularColumn"
  ELSE IF ~BothGenerated THEN "OK"
  ELSE IF Updated.type # Published.type
    THEN "CannotAlterStoredGeneratedColumnDataType"
  ELSE IF Updated.expression # Published.expression
    THEN "CannotAlterGeneratedColumnExpression"
  ELSE IF Updated.is_stored # Published.is_stored
    THEN "CannotAlterGeneratedColumnStoredAttribute"
  ELSE "OK"

\* C15: generated-ness cannot be toggled.  For a surviving column
\* ValidateUpdate fails when exactly one of the old and the new column is
\* generated, and when both are generated it fails unless the type, the
\* expression and the stored attribute are all the same; with the column id
\* kept, the error is the one of the first of these differences, and none of
\* these errors is returned when there is no such difference.
C15_GeneratednessFixed ==
  ColumnUpdateDone =>
    /\ ExpectedGeneratedError # "OK" => ~ok(last_call.status)
    /\ ( ExpectedGeneratedError # "OK" /\ Updated.id = Published.id )
         => last_call.status.code = ExpectedGeneratedError
    /\ ExpectedGeneratedError = "OK"
         => last_call.status.code \notin GeneratedErrors

C15_Witness ==
  /\ ColumnUpdateDone
  /\ BothGenerated
  /\ Updated = [Published EXCEPT !.expression = "A+1"]
  /\ Published.expression = "A"
  /\ last_call.status.code = "CannotAlterGeneratedColumnExpression"

\* Some generated column of the table of the rebuilt column lists it among
\* its dependencies.
HasGeneratedDependent ==
  \E c \in DOMAIN candidate.columns :
    /\ candidate.columns[c].table = Updated.table
    /\ candidate.columns[c].expression # NoExpression
    /\ \E j \in 1..Len(candidate.columns[c].dependent_columns) :
         candidate.columns[c].dependent_columns[j] = args.node

\* C16: the type of a surviving column that a generated column of its table
\* depends on does not change.  When the old and the new type differ and
\* there is such a dependent, ValidateUpdate fails, for a regular column of
\* unchanged id with CannotAlterColumnDataTypeWithDependentStoredGeneratedColumn,
\* also when the conversion is an allowed one; without a dependent, or
\* without a change of type, that error is never returned.
C16_TypeFixedUnderDependent ==
  ColumnUpdateDone =>
    /\ ( Updated.type # Published.type /\ HasGeneratedDependent )
         => /\ ~ok(last_call.status)
            /\ ( /\ Updated.id = Published.id
                 /\ Updated.expression = NoExpression
                 /\ Published.expression = NoExpression )
                 => last_call.status.code =
                      "CannotAlterColumnDataTypeWithDependentStoredGeneratedColumn"
    /\ ( Updated.type = Published.type \/ ~HasGeneratedDependent )
         => last_call.status.code #
              "CannotAlterColumnDataTypeWithDependentStoredGeneratedColumn"

C16_Witness ==
  /\ ColumnUpdateDone
  /\ HasGeneratedDependent
  /\ Published.type = StringType
  /\ Updated = [Published EXCEPT !.type = BytesType]
  /\ IsAllowedTypeChange(Published.type, Updated.type)
  /\ last_call.status.code =
       "CannotAlterColumnDataTypeWithDependentStoredGeneratedColumn"

\* C17: the id of a column is permanent.  ValidateUpdate fails for every
\* surviving column whose id differs from the id of the old column, so
\* through every sequence of successful updates a surviving column has the
\* id it was created with.
C17_IdPermanent ==
  /\ ( ColumnUpdateDone /\ Updated.id # Published.id )
       => ~ok(last_call.status)
  /\ \A c \in DOMAIN current.columns :
       current.columns[c].id = before.columns[c].id

C17_Witness ==
  /\ ColumnUpdateDone
  /\ nstmts = 1
  /\ current # before
  /\ Updated = [Published EXCEPT !.id = "c9"]
  /\ last_call.status.code = "INTERNAL"

-----------------------------------------------------------------------------
(* Column definitions: the clauses that follow the type of a column in      *)
(* CREATE TABLE and ALTER TABLE ADD COLUMN, parsed into a column that       *)
(* ColumnValidator::Validate then checks.                                   *)

MaxClauses == 3   \* clauses after the type of a column definition

\* The clauses: NOT NULL, DEFAULT (expr), AS (expr) STORED.
ColumnClauses == {"NOT NULL", "DEFAULT", "AS STORED"}

ColumnDefinitions == UNION {[1..n -> ColumnClauses] : n \in 0..MaxClauses}

SyntaxError == Error("Syntax error", "", "", 0, <<>>)

\* A slip of the parser: a DEFAULT clause is taken after a generation
\* clause.
ParseColumnDefinitionTrailingDefault(clauses, enable_column_default_values) ==
  LET rest == IF clauses # <<>> /\ Head(clauses) = "NOT NULL"
                THEN Tail(clauses) ELSE clauses
  IN IF rest \in {<<>>, <<"AS STORED">>} THEN OkStatus
     ELSE IF rest \in {<<"DEFAULT">>, <<"AS STORED", "DEFAULT">>}
             /\ enable_column_default_values
       THEN OkStatus
     ELSE SyntaxError

\* The parser on a column definition: an optional NOT NULL, then at most one
\* of a DEFAULT clause (when default values are enabled) and a generation
\* clause.
ParseColumnDefinition(clauses, enable_column_default_values) ==
  LET rest == IF clauses # <<>> /\ Head(clauses) = "NOT NULL"
                THEN Tail(clauses) ELSE clauses
  IN IF rest \in {<<>>, <<"AS STORED">>} THEN OkStatus
     ELSE IF rest = <<"DEFAULT">> /\ enable_column_default_values
       THEN OkStatus
     ELSE SyntaxError

Mentions(clauses, clause) == \E k \in 1..Len(clauses) : clauses[k] = clause

\* The column a definition stands for.
DefinedColumn(clauses) ==
  [NewColumn("c2", "G", Int64Type, NoLength, ~Mentions(clauses, "NOT NULL"))
     EXCEPT !.expression = IF Mentions(clauses, "AS STORED") THEN "1"
                           ELSE NoExpression,
            !.is_stored = Mentions(clauses, "AS STORED"),
            !.has_default_value = Mentions(clauses, "DEFAULT")]

InitColumnDefinition ==
  /\ pc = "call"
  /\ args \in [clauses : ColumnDefinitions,
               enable_column_default_values : BOOLEAN]
  /\ result = FALSE
  /\ current = NoSchema
  /\ before = NoSchema
  /\ candidate = NoSchema
  /\ nstmts = 0
  /\ next_node = 1
  /\ actions = <<>>
  /\ ran = <<>>
  /\ status = OkStatus
  /\ last_call = NoCall
  /\ observed = {}

\* The statement is parsed; the column of an accepted definition is added
\* to the table and validated.
ParseAndValidateColumn ==
  /\ pc = "call"
  /\ LET parsed == ParseColumnDefinition(args.clauses,
                                         args.enable_column_default_values)
         g == PairSchema(ColumnA(Int64Type, NoLength, TRUE, "unset", 0,
                                 FALSE),
                         DefinedColumn(args.clauses))
     IN IF ~ok(parsed)
          THEN /\ status' = parsed
               /\ last_call' = Call("ParseDDLStatement", NoColumn, parsed,
                                    <<>>)
               /\ UNCHANGED candidate
          ELSE /\ status' = Validate(g.columns["c2"], g)
               /\ last_call' = Call("Validate", "c2", status', <<>>)
               /\ candidate' = g
  /\ pc' = "done"
  /\ UNCHANGED <<args, current, before, nstmts, next_node, actions, ran,
                 result, observed>>

NextColumnDefinition == ParseAndValidateColumn

SpecColumnDefinition == InitColumnDefinition /\ [][NextColumnDefinition]_vars

-----------------------------------------------------------------------------
(* Sequence options: the option list of CREATE SEQUENCE ... OPTIONS (...)   *)
(* and ALTER SEQUENCE ... SET OPTIONS (...), as the parser accepts it.      *)

MaxOptions == 2   \* options of one statement

\* The option names of the statements: the four sequence options and one
\* that is unknown.
OptionNames ==
  {"sequence_kind", "skip_range_min", "skip_range_max", "start_with_counter",
   "start_with"}

\* The option values: two strings, an integer and NULL.
OptionValues ==
  {[type |-> "string", text |-> "bit_reversed_positive"],
   [type |-> "string", text |-> "some_kind"],
   [type |-> "integer", text |-> "1"],
   [type |-> "null", text |-> "NULL"]}

SequenceOption(name, value) == [name |-> name, value |-> value]

OptionLists ==
  UNION {[1..n -> {SequenceOption(name, value) :
                     name \in OptionNames, value \in OptionValues}] :
           n \in 0..MaxOptions}

ParseError(code, name) == Error(code, name, "", 0, <<>>)

\* The check of one option, after the options seen before it.
CheckSequenceOption(option, seen) ==
  IF option.name \notin {"sequence_kind", "skip_range_min", "skip_range_max",
                         "start_with_counter"}
    THEN ParseError("Option is unknown", option.name)
  ELSE IF option.name \in seen
    THEN ParseError("Duplicate option", option.name)
  ELSE IF option.name = "sequence_kind"
    THEN IF option.value.type # "string"
           THEN ParseError("The only supported sequence kind is bit_reversed_positive",
                           option.name)
         ELSE IF option.value.text # "bit_reversed_positive"
           THEN ParseError("Unsupported sequence kind", option.value.text)
         ELSE OkStatus
  ELSE IF option.value.type \notin {"integer", "null"}
    THEN ParseError("Unexpected value for option", option.name)
  ELSE OkStatus

\* A slip of the parser: the options seen are not remembered, so that a
\* repeated option passes.
RECURSIVE CheckSequenceOptionsForgetful(_, _)
CheckSequenceOptionsForgetful(options, seen) ==
  IF options = <<>> THEN OkStatus
  ELSE IF ~ok(CheckSequenceOption(Head(options), seen))
    THEN CheckSequenceOption(Head(options), seen)
  ELSE CheckSequenceOptionsForgetful(Tail(options), seen)

\* The options are checked from left to right; the first error is returned.
RECURSIVE CheckSequenceOptions(_, _)
CheckSequenceOptions(options, seen) ==
  IF options = <<>> THEN OkStatus
  ELSE IF ~ok(CheckSequenceOption(Head(options), seen))
    THEN CheckSequenceOption(Head(options), seen)
  ELSE CheckSequenceOptions(Tail(options), seen \cup {Head(options).name})

\* ParseDDLStatement on CREATE SEQUENCE (statement = "CREATE") and ALTER
\* SEQUENCE (statement = "ALTER") with the option list options.
ParseSequenceOptions(statement, options) ==
  IF options = <<>> THEN SyntaxError
  ELSE IF ~ok(CheckSequenceOptions(options, {}))
    THEN CheckSequenceOptions(options, {})
  ELSE IF /\ statement = "CREATE"
          /\ ~\E k \in 1..Len(options) : options[k].name = "sequence_kind"
    THEN ParseError("CREATE SEQUENCE statements require option sequence_kind to be set",
                    "sequence_kind")
  ELSE OkStatus

InitSequenceOptions ==
  /\ pc = "call"
  /\ args \in [statement : {"CREATE", "ALTER"}, options : OptionLists]
  /\ result = FALSE
  /\ current = NoSchema
  /\ before = NoSchema
  /\ candidate = NoSchema
  /\ nstmts = 0
  /\ next_node = 1
  /\ actions = <<>>
  /\ ran = <<>>
  /\ status = OkStatus
  /\ last_call = NoCall
  /\ observed = {}

CallParseSequenceOptions ==
  /\ pc = "call"
  /\ status' = ParseSequenceOptions(args.statement, args.options)
  /\ last_call' = Call("ParseDDLStatement", NoColumn, status', <<>>)
  /\ pc' = "done"
  /\ UNCHANGED <<args, current, before, candidate, nstmts, next_node,
                 actions, ran, result, observed>>

NextSequenceOptions == CallParseSequenceOptions

SpecSequenceOptions == InitSequenceOptions /\ [][NextSequenceOptions]_vars

\* The conditions of C19 on an option list.
WellFormedOptions(statement, options) ==
  /\ \A k \in 1..Len(options) :
       /\ options[k].name \in {"sequence_kind", "skip_range_min",
                               "skip_range_max", "start_with_counter"}
       /\ \A j \in 1..Len(options) :
            options[j].name = options[k].name => j = k
       /\ IF options[k].name = "sequence_kind"
            THEN options[k].value =
                   [type |-> "string", text |-> "bit_reversed_positive"]
            ELSE options[k].value.type \in {"integer", "null"}
  /\ statement = "CREATE" =>
       \E k \in 1..Len(options) : options[k].name = "sequence_kind"

-----------------------------------------------------------------------------
(* Views.  View::Builder builds a view; View::Editor::copy_from replaces    *)
(* the definition of the edited view by that of another view.  The views    *)
(* are objects of a heap, so that the two views of a call may be the same   *)
(* object.                                                                  *)

MaxViewColumns == 2   \* columns of a view
MaxCopies == 2        \* calls of copy_from on one editor

\* View::Column
ViewColumn(name, type) == [name |-> name, type |-> type]

ViewColumns == {ViewColumn("x", "INT64"), ViewColumn("x", "STRING")}

ViewColumnLists == UNION {[1..n -> ViewColumns] : n \in 0..MaxViewColumns}

\* columns_map_.emplace(name, column): a name already in the map keeps its
\* column.
Emplace(map, name, column) ==
  IF name \in DOMAIN map THEN map
  ELSE [k \in DOMAIN map \cup {name} |->
          IF k = name THEN column ELSE map[k]]

\* View::Builder::add_column for each column of the list, in order.
RECURSIVE AddColumns(_, _)
AddColumns(view, columns) ==
  IF columns = <<>> THEN view
  ELSE AddColumns(
         [view EXCEPT !.columns = Append(view.columns, Head(columns)),
                      !.columns_map = Emplace(view.columns_map,
                                              Head(columns).name,
                                              Head(columns))],
         Tail(columns))

\* A view as View::Builder builds it.
BuildView(name, security, body, body_origin, columns, dependencies) ==
  AddColumns([name |-> name, security |-> security, body |-> body,
              body_origin |-> body_origin, columns |-> <<>>,
              columns_map |-> <<>>, dependencies |-> dependencies],
             columns)

Views ==
  {BuildView(name, security, body[1], body[2], columns, dependencies) :
     <<name, security, body, columns, dependencies>> \in
       {"V", "W"} \X {"INVOKER", "UNSPECIFIED"}
         \X {<<"SELECT 1", "">>, <<"SELECT 2", "CREATE VIEW">>}
         \X ViewColumnLists \X {<<>>, <<"t1">>}}

\* The loop of lines 105-107: every entry of the source map is emplaced.
RECURSIVE EmplaceAll(_, _, _)
EmplaceAll(map, source, names) ==
  IF names = {} THEN map
  ELSE LET name == CHOOSE n \in names : TRUE
       IN EmplaceAll(Emplace(map, name, source[name]), source,
                     names \ {name})

\* A slip of copy_from: the columns and the map are not cleared first.
copy_from_merging(heap, instance, view) ==
  LET h1 == [heap EXCEPT ![instance].name = heap[view].name]
      h3 == [h1 EXCEPT ![instance].columns =
                          h1[instance].columns \o h1[view].columns]
      h5 == [h3 EXCEPT ![instance].columns_map =
                          EmplaceAll(h3[instance].columns_map,
                                     h3[view].columns_map,
                                     DOMAIN h3[view].columns_map)]
  IN [h5 EXCEPT ![instance].security = h5[view].security,
                ![instance].body = h5[view].body,
                ![instance].body_origin = h5[view].body_origin,
                ![instance].dependencies = h5[view].dependencies]

\* View::Editor::copy_from(view) on the editor of instance, statement by
\* statement on the heap.
copy_from(heap, instance, view) ==
  LET h1 == [heap EXCEPT ![instance].name = heap[view].name]
      h2 == [h1 EXCEPT ![instance].columns = <<>>]
      h3 == [h2 EXCEPT ![instance].columns =
                          h2[instance].columns \o h2[view].columns]
      h4 == [h3 EXCEPT ![instance].columns_map = <<>>]
      h5 == [h4 EXCEPT ![instance].columns_map =
                          EmplaceAll(h4[instance].columns_map,
                                     h4[view].columns_map,
                                     DOMAIN h4[view].columns_map)]
  IN [h5 EXCEPT ![instance].security = h5[view].security,
                ![instance].body = h5[view].body,
                ![instance].body_origin = h5[view].body_origin,
                ![instance].dependencies = h5[view].dependencies]

\* Two views on the heap; the editor is on v1 and copies from v1 or v2.
InitView ==
  /\ pc = "call"
  /\ candidate \in [views : [{"v1", "v2"} -> Views]]
  /\ before = candidate
  /\ current = candidate
  /\ args \in [instance : {"v1"}, view : {"v1", "v2"}]
  /\ result = FALSE
  /\ nstmts = 0
  /\ next_node = 1
  /\ actions = <<>>
  /\ ran = <<>>
  /\ status = OkStatus
  /\ last_call = NoCall
  /\ observed = {}

\* One call of copy_from; current keeps the heap as it was before the call.
CallCopyFrom ==
  /\ pc = "call"
  /\ nstmts < MaxCopies
  /\ current' = candidate
  /\ candidate' = [candidate EXCEPT
                     !.views = copy_from(candidate.views, args.instance,
                                         args.view)]
  /\ nstmts' = nstmts + 1
  /\ UNCHANGED <<pc, args, before, next_node, actions, ran, status,
                 last_call, result, observed>>

NextView == CallCopyFrom

SpecView == InitView /\ [][NextView]_vars

\* The parts of a view that make its definition.
DefinitionOf(view) ==
  <<view.name, view.columns, view.columns_map, view.security, view.body,
    view.body_origin, view.dependencies>>

\* C20: editing a view replaces its definition.  After copy_from(v) the
\* name, the column list, the column map, the security mode, the body, the
\* body origin and the dependency list of the edited view are those of v,
\* which is itself unchanged when it is another view, so that nothing of
\* the previous columns or dependencies remains; a second copy_from(v)
\* changes nothing.
C20_CopyFromReplaces ==
  /\ nstmts >= 1 =>
       /\ DefinitionOf(candidate.views[args.instance])
            = DefinitionOf(candidate.views[args.view])
       /\ args.view # args.instance =>
            /\ candidate.views[args.view] = before.views[args.view]
            /\ candidate.views[args.instance].columns
                 = before.views[args.view].columns
            /\ candidate.views[args.instance].dependencies
                 = before.views[args.view].dependencies
  /\ nstmts >= 2 => candidate = current

C20_Witness ==
  /\ nstmts = 2
  /\ args.view = "v2"
  /\ Len(before.views["v1"].columns) = 2
  /\ before.views["v1"].dependencies = <<"t1">>
  /\ before.views["v2"].columns = <<ViewColumn("x", "STRING")>>
  /\ before.views["v2"].dependencies = <<>>
  /\ candidate.views["v1"] = before.views["v2"]

-----------------------------------------------------------------------------
(* The query catalog.  Catalog wraps the tables and the views of a schema   *)
(* as queryable objects registered by name; GetTable looks a name up.       *)

MaxLookups == 2   \* calls of GetTable on one catalog

\* The names of the tables and views of the schemas, and a name none has.
CatalogNames == {"A", "B", "C"}

\* The null pointer; the other pointers are the objects they point to.
nullptr == <<>>

\* Catalog::Catalog(schema, ...): one QueryableTable per table and one
\* QueryableView per view of the schema, registered under its name.
NewCatalog(tables, views) ==
  [tables_ |-> [n \in tables |-> <<"QueryableTable", n>>],
   views_ |-> [n \in views |-> <<"QueryableView", n>>]]

\* A slip of GetTable: the tables are searched before the views.
GetTableTablesFirst(catalog, name) ==
  IF name \in DOMAIN catalog.tables_
    THEN [status |-> OkStatus, table |-> catalog.tables_[name],
          catalog |-> catalog]
  ELSE IF name \in DOMAIN catalog.views_
    THEN [status |-> OkStatus, table |-> catalog.views_[name],
          catalog |-> catalog]
  ELSE [status |-> Error("TableNotFound", name, "", 0, <<>>),
        table |-> nullptr, catalog |-> catalog]

\* Catalog::GetTable(name, &table, options): the status, the pointer left
\* in *table, and the catalog after the call.
GetTable(catalog, name) ==
  IF name \in DOMAIN catalog.views_
    THEN [status |-> OkStatus, table |-> catalog.views_[name],
          catalog |-> catalog]
  ELSE IF name \in DOMAIN catalog.tables_
    THEN [status |-> OkStatus, table |-> catalog.tables_[name],
          catalog |-> catalog]
  ELSE [status |-> Error("TableNotFound", name, "", 0, <<>>),
        table |-> nullptr, catalog |-> catalog]

\* A catalog built over a schema; the caller's pointer holds anything.
InitCatalog ==
  /\ pc = "call"
  /\ candidate \in {NewCatalog(tables, views) :
                      tables \in SUBSET CatalogNames,
                      views \in SUBSET (CatalogNames \ {"C"})}
  /\ before = candidate
  /\ current = candidate
  /\ args = [name |-> ""]
  /\ result \in [table : {nullptr, <<"QueryableTable", "A">>}]
  /\ nstmts = 0
  /\ next_node = 1
  /\ actions = <<>>
  /\ ran = <<>>
  /\ status = OkStatus
  /\ last_call = NoCall
  /\ observed = {}

\* One call of GetTable, for any name.
CallGetTable ==
  /\ pc = "call"
  /\ nstmts < MaxLookups
  /\ \E name \in CatalogNames \cup {"D"} :
       LET r == GetTable(candidate, name)
       IN /\ args' = [name |-> name]
          /\ candidate' = r.catalog
          /\ result' = [table |-> r.table]
          /\ status' = r.status
          /\ last_call' = Call("GetTable", name, r.status, <<>>)
  /\ nstmts' = nstmts + 1
  /\ UNCHANGED <<pc, current, before, next_node, actions, ran, observed>>

NextCatalog == CallGetTable

SpecCatalog == InitCatalog /\ [][NextCatalog]_vars

\* C21: GetTable is a read-only lookup.  It returns the view registered
\* under the name if there is one, otherwise the table registered under the
\* name, and otherwise fails with TableNotFound leaving the output pointer
\* null; no call changes the tables or the views of the catalog.
C21_GetTableLookup ==
  /\ candidate = before
  /\ nstmts >= 1 =>
       IF args.name \in DOMAIN before.views_
         THEN /\ ok(status)
              /\ result.table = <<"QueryableView", args.name>>
       ELSE IF args.name \in DOMAIN before.tables_
         THEN /\ ok(status)
              /\ result.table = <<"QueryableTable", args.name>>
       ELSE /\ status = Error("TableNotFound", args.name, "", 0, <<>>)
            /\ result.table = nullptr

\* A name registered as a view and as a table, looked up after a failed
\* lookup.
C21_Witness ==
  /\ nstmts = 2
  /\ args.name = "A"
  /\ {"A"} \subseteq DOMAIN before.views_ \cap DOMAIN before.tables_
  /\ result.table = <<"QueryableView", "A">>

\* A failed lookup with a pointer that was not null before the call.
C21_NotFound ==
  /\ nstmts = 1
  /\ args.name = "D"
  /\ status.code = "TableNotFound"
  /\ result.table = nullptr

-----------------------------------------------------------------------------
(* The sub-catalogs of a Catalog.  Each is built on first use by its        *)
(* getter, under the mutex mu_ of the catalog; threads call GetCatalog,     *)
(* GetCatalogs and the getters concurrently.                                *)

MaxCalls == 3   \* calls the threads start on one catalog

Threads == {"th1", "th2"}

\* The members that hold the sub-catalogs; each has one getter.
SubCatalogs ==
  {"information_schema_catalog_", "pg_information_schema_catalog_",
   "spanner_sys_catalog_", "net_catalog_", "pg_function_catalog_",
   "pg_catalog_"}

\* The getters that first obtain the system catalog.
InformationSchemaCatalogs ==
  {"information_schema_catalog_", "pg_information_schema_catalog_"}

\* The getters a call goes through, in order: GetCatalog(name) calls the
\* getter its name selects, or none; GetCatalogs calls three.
GettersCalled ==
  {<<member>> : member \in SubCatalogs}
    \cup {<<>>,
          <<"information_schema_catalog_", "spanner_sys_catalog_",
            "net_catalog_">>}

\* A slip of the mutex: it never makes a thread wait.
MutexNeverHeld(mu) == TRUE

\* absl::MutexLock lock(&mu_) can proceed.
MutexFree(mu) == mu = "free"

\* A slip of the information schema getters: the system catalog is
\* obtained through GetSpannerSysCatalog, which locks mu_.
HelperLocksInGetter(member) == member \in InformationSchemaCatalogs

\* GetSpannerSysCatalogWithoutLocks does not lock mu_.
HelperLocks(member) == FALSE

\* std::make_unique<...>: the n-th object built for a member, as the triple
\* of the member, n, and for an information schema catalog the number of
\* the system catalog object it is given (0: none).
NewSubCatalog(member, n, spanner_sys_catalog) ==
  <<member, n,
    IF member \in InformationSchemaCatalogs /\ spanner_sys_catalog # nullptr
      THEN spanner_sys_catalog[2] ELSE 0>>

\* The objects built for a member so far.
Built(log, member) == SelectSeq(log, LAMBDA o : o[1] = member)

InitSubCatalogs ==
  /\ pc = [t \in Threads |-> "idle"]
  /\ candidate = [mu_ |-> "free", sub |-> [m \in SubCatalogs |-> nullptr]]
  /\ args = [t \in Threads |-> [todo |-> <<>>, sys |-> nullptr]]
  /\ result = [t \in Threads |-> nullptr]
  /\ observed = {}
  /\ actions = <<>>
  /\ nstmts = 0
  /\ before = NoSchema
  /\ current = NoSchema
  /\ next_node = 1
  /\ ran = <<>>
  /\ status = OkStatus
  /\ last_call = NoCall

\* A thread starts a call.
StartCall(t) ==
  /\ pc[t] = "idle"
  /\ nstmts < MaxCalls
  /\ \E todo \in GettersCalled :
       /\ args' = [args EXCEPT ![t] = [todo |-> todo, sys |-> nullptr]]
       /\ pc' = [pc EXCEPT ![t] = IF todo = <<>> THEN "idle" ELSE "lock"]
  /\ nstmts' = nstmts + 1
  /\ UNCHANGED <<candidate, result, observed, actions, before, current,
                 next_node, ran, status, last_call>>

\* absl::MutexLock lock(&mu_), first statement of every getter.
Lock(t) ==
  /\ pc[t] = "lock"
  /\ MutexFree(candidate.mu_)
  /\ candidate' = [candidate EXCEPT !.mu_ = t]
  /\ pc' = [pc EXCEPT ![t] =
              IF Head(args[t].todo) \in InformationSchemaCatalogs
                THEN "helper" ELSE "check"]
  /\ UNCHANGED <<args, result, observed, actions, nstmts, before, current,
                 next_node, ran, status, last_call>>

\* auto spanner_sys_catalog = GetSpannerSysCatalogWithoutLocks(): the system
\* catalog is built if it is not there, and kept in the local variable.
Helper(t) ==
  /\ pc[t] = "helper"
  /\ HelperLocks(Head(args[t].todo)) => MutexFree(candidate.mu_)
  /\ LET n == Len(Built(actions, "spanner_sys_catalog_")) + 1
         new == NewSubCatalog("spanner_sys_catalog_", n, nullptr)
         sys == IF candidate.sub["spanner_sys_catalog_"] = nullptr
                  THEN new ELSE candidate.sub["spanner_sys_catalog_"]
     IN /\ candidate' = [candidate EXCEPT !.sub["spanner_sys_catalog_"] = sys]
        /\ actions' = IF candidate.sub["spanner_sys_catalog_"] = nullptr
                        THEN Append(actions, new) ELSE actions
        /\ args' = [args EXCEPT ![t].sys = sys]
  /\ pc' = [pc EXCEPT ![t] = "check"]
  /\ UNCHANGED <<result, observed, nstmts, before, current, next_node, ran,
                 status, last_call>>

\* if (!member_)
Check(t) ==
  /\ pc[t] = "check"
  /\ pc' = [pc EXCEPT ![t] =
              IF candidate.sub[Head(args[t].todo)] = nullptr
                THEN "construct" ELSE "return"]
  /\ UNCHANGED <<candidate, args, result, observed, actions, nstmts, before,
                 current, next_node, ran, status, last_call>>

\* member_ = std::make_unique<...>(...)
Construct(t) ==
  /\ pc[t] = "construct"
  /\ LET member == Head(args[t].todo)
         new == NewSubCatalog(member, Len(Built(actions, member)) + 1,
                              args[t].sys)
     IN /\ candidate' = [candidate EXCEPT !.sub[member] = new]
        /\ actions' = Append(actions, new)
  /\ pc' = [pc EXCEPT ![t] = "return"]
  /\ UNCHANGED <<args, result, observed, nstmts, before, current, next_node,
                 ran, status, last_call>>

\* return member_.get(); the lock is released as the getter returns, and
\* the call goes on to its next getter or returns.
Return(t) ==
  /\ pc[t] = "return"
  /\ LET member == Head(args[t].todo)
     IN /\ result' = [result EXCEPT ![t] = candidate.sub[member]]
        /\ observed' = observed \cup {<<member, candidate.sub[member]>>}
  /\ candidate' = [candidate EXCEPT !.mu_ = "free"]
  /\ args' = [args EXCEPT ![t].todo = Tail(args[t].todo)]
  /\ pc' = [pc EXCEPT ![t] =
              IF Tail(args[t].todo) = <<>> THEN "idle" ELSE "lock"]
  /\ UNCHANGED <<actions, nstmts, before, current, next_node, ran, status,
                 last_call>>

\* The steps of a call under way.
Run(t) == Lock(t) \/ Helper(t) \/ Check(t) \/ Construct(t) \/ Return(t)

NextSubCatalogs == \E t \in Threads : StartCall(t) \/ Run(t)

\* Every thread that can take a step of its call is scheduled; the calls of
\* a behaviour are finitely many.
SpecSubCatalogs ==
  /\ InitSubCatalogs
  /\ [][NextSubCatalogs]_vars
  /\ \A t \in Threads : WF_vars(Run(t))

\* C29: under any interleaving of the calls, each sub-catalog is built at
\* most once, every call of a getter returns the one object built for its
\* member, and both information schema catalogs are built on the one system
\* catalog.
C29_BuiltOnce ==
  /\ \A member \in SubCatalogs : Len(Built(actions, member)) <= 1
  /\ \A r \in observed :
       /\ r[2] # nullptr
       /\ r[2] = candidate.sub[r[1]]
       /\ Built(actions, r[1]) = <<r[2]>>
  /\ \A member \in InformationSchemaCatalogs :
       candidate.sub[member] # nullptr =>
         /\ candidate.sub["spanner_sys_catalog_"] # nullptr
         /\ candidate.sub[member][3] = candidate.sub["spanner_sys_catalog_"][2]

\* The two information schema catalogs built by different threads, the
\* system catalog built by the first of them.
C29_Witness ==
  /\ \A member \in InformationSchemaCatalogs :
       <<member, candidate.sub[member]>> \in observed
  /\ result["th1"] # nullptr /\ result["th2"] # nullptr
  /\ result["th1"] # result["th2"]
  /\ Len(actions) = 3
  /\ \E t \in Threads : pc[t] = "lock"

\* A thread holds mu_ exactly while it is inside a getter.
MutexDiscipline ==
  \A t \in Threads :
    /\ pc[t] \in {"helper", "check", "construct", "return"}
         <=> candidate.mu_ = t
    /\ pc[t] = "helper" => ~HelperLocks(Head(args[t].todo))

\* C30: no call blocks forever.  A thread holds mu_ only inside a getter,
\* where it does not acquire it again, and does not hold it when the getter
\* has returned; every call that was started returns.
C30_EveryCallReturns ==
  /\ []MutexDiscipline
  /\ \A t \in Threads : (pc[t] # "idle") ~> (pc[t] = "idle")

\* A thread waits for mu_ while the other is inside an information schema
\* getter, during a GetCatalogs call.
C30_Witness ==
  /\ pc["th1"] = "lock"
  /\ pc["th2"] = "helper"
  /\ candidate.mu_ = "th2"
  /\ Len(args["th1"].todo) = 2

=============================================================================
